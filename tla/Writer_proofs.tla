--------------------------- MODULE Writer_proofs ---------------------------
(***************************************************************************)
(* For every nesting of strategies, every ID and every size: the bytes       *)
(* EndMaster patches are the placeholder of the master it ends, and the sink  *)
(* and the buffers hold the document that was said.                         *)
(***************************************************************************)
EXTENDS WriterReference, Facts_proofs

BytesIn(frames, s, t) == IF t = 0 THEN s ELSE frames[t].buf

TargetIn(frames, t, k) ==
  /\ t \in 0..k
  /\ t # 0 => frames[t].kind = "buffered"
  /\ \A j \in (t + 1)..k : frames[j].kind # "buffered"

IsFrame(f) ==
  /\ f = [id |-> f.id, kind |-> f.kind, buf |-> f.buf, prev |-> f.prev, crcID |-> f.crcID,
          target |-> f.target, width |-> f.width, sizeAt |-> f.sizeAt,
          payloadAt |-> f.payloadAt]
  /\ IsSequence(f.buf)
  /\ f.kind \in {"buffered", "unknown", "reserved"}
  /\ f.id \in ElementID /\ f.crcID \in ElementID \cup {"none"}

\* A frame of the same master, its buffer apart.
SameFrame(g, f) ==
  /\ IsFrame(g)
  /\ g.id = f.id /\ g.crcID = f.crcID
  /\ g.kind = f.kind /\ g.prev = f.prev /\ g.target = f.target
  /\ g.width = f.width /\ g.sizeAt = f.sizeAt /\ g.payloadAt = f.payloadAt

PlaceholderIn(f, bytes) ==
  /\ f.sizeAt \in Nat /\ f.width \in Nat
  /\ f.payloadAt = f.sizeAt + f.width
  /\ f.payloadAt <= Len(bytes)
  /\ \A i \in 1..f.width : bytes[f.sizeAt + i] = SizeBytes(0, f.width)[i]

\* Frames that point at their placeholders, and no two at one: those in one target
\* follow each other as the masters are nested.
FramesOK(frames, s) ==
  /\ IsSequence(s) /\ IsSequence(frames)
  /\ \A k \in 1..Len(frames) :
       /\ IsFrame(frames[k])
       /\ frames[k].kind = "buffered" => TargetIn(frames, frames[k].prev, k - 1)
       /\ frames[k].kind = "reserved" =>
            /\ TargetIn(frames, frames[k].target, k - 1)
            /\ PlaceholderIn(frames[k], BytesIn(frames, s, frames[k].target))
  /\ \A k \in 1..Len(frames) : \A j \in 1..(k - 1) :
       /\ frames[j].kind = "reserved" /\ frames[k].kind = "reserved"
       /\ frames[j].target = frames[k].target
       => frames[j].payloadAt <= frames[k].sizeAt

\* Holds until a failure, after which nothing is written.
WriterInv ==
  failure = "none" =>
    /\ FramesOK(open, sink)
    /\ TargetIn(open, cur, Len(open))
    /\ off = Len(sink)

-----------------------------------------------------------------------------
(* Sequences.                                                              *)

\* A sequence, of whatever it is, has a length and is indexed from one.
LEMMA SequenceFacts ==
  ASSUME NEW s, IsSequence(s)
  PROVE  Len(s) \in Nat /\ DOMAIN s = 1..Len(s)
  BY LenProperties DEF IsSequence

\* A sequence of elements of a set is one.
LEMMA SequenceOf ==
  ASSUME NEW S, NEW s \in Seq(S)
  PROVE  IsSequence(s)
  BY SeqOfRange DEF IsSequence

\* So is a function on 1..n.
LEMMA FunctionIsSequence ==
  ASSUME NEW n \in Nat, NEW s, s = [i \in 1..n |-> s[i]]
  PROVE  IsSequence(s) /\ Len(s) = n
  <1>1. s \in [1..n -> Range(s)]
    BY DEF Range
  <1>2. s \in Seq(Range(s))
    BY <1>1, SeqDef
  <1>3. DOMAIN s = 1..Len(s) /\ Len(s) \in Nat /\ DOMAIN s = 1..n
    BY <1>1, <1>2, LenProperties
  <1> QED BY <1>2, <1>3 DEF IsSequence

\* A concatenation has the elements of both, in order.
LEMMA Concatenated ==
  ASSUME NEW s, NEW t, IsSequence(s), IsSequence(t)
  PROVE  /\ IsSequence(s \o t)
         /\ Len(s \o t) = Len(s) + Len(t)
         /\ \A i \in 1..Len(s) : (s \o t)[i] = s[i]
         /\ \A i \in 1..Len(t) : (s \o t)[Len(s) + i] = t[i]
  <1> DEFINE S == Range(s) \cup Range(t)
  <1>1. s \in Seq(S) /\ t \in Seq(S)
    BY SeqMonotonic DEF IsSequence
  <1>2. /\ s \o t \in Seq(S)
        /\ Len(s \o t) = Len(s) + Len(t)
        /\ \A i \in 1..(Len(s) + Len(t)) :
             (s \o t)[i] = IF i <= Len(s) THEN s[i] ELSE t[i - Len(s)]
    BY <1>1, ConcatProperties
  <1>3. IsSequence(s \o t)
    BY <1>2, SequenceOf
  <1>4. Len(s) \in Nat /\ Len(t) \in Nat
    BY SequenceFacts
  <1>5. \A i \in 1..Len(s) : (s \o t)[i] = s[i]
    BY <1>2, <1>4
  <1>6. \A i \in 1..Len(t) : (s \o t)[Len(s) + i] = t[i]
    <2> TAKE i \in 1..Len(t)
    <2>1. Len(s) + i \in 1..(Len(s) + Len(t)) /\ ~(Len(s) + i <= Len(s)) /\ (Len(s) + i) - Len(s) = i
      BY <1>4
    <2> QED BY <1>2, <2>1
  <1> QED BY <1>2, <1>3, <1>5, <1>6

\* Append keeps what is there and adds one.
LEMMA Appended ==
  ASSUME NEW s, NEW e, IsSequence(s)
  PROVE  /\ IsSequence(Append(s, e))
         /\ Len(Append(s, e)) = Len(s) + 1
         /\ \A i \in 1..Len(s) : Append(s, e)[i] = s[i]
         /\ Append(s, e)[Len(s) + 1] = e
  <1> DEFINE S == Range(s) \cup {e}
  <1>1. s \in Seq(S) /\ e \in S
    BY SeqMonotonic DEF IsSequence
  <1>2. /\ Append(s, e) \in Seq(S)
        /\ Len(Append(s, e)) = Len(s) + 1
        /\ \A i \in 1..Len(s) : Append(s, e)[i] = s[i]
        /\ Append(s, e)[Len(s) + 1] = e
    BY <1>1, AppendProperties
  <1> QED BY <1>2, SequenceOf

\* A prefix has the elements of what it begins.
LEMMA Prefix ==
  ASSUME NEW s, IsSequence(s), NEW n \in 0..Len(s)
  PROVE  /\ IsSequence(SubSeq(s, 1, n))
         /\ Len(SubSeq(s, 1, n)) = n
         /\ \A i \in 1..n : SubSeq(s, 1, n)[i] = s[i]
  <1>1. Len(s) \in Nat /\ DOMAIN s = 1..Len(s)
    BY SequenceFacts
  <1>2. \A i \in 1..n : s[i] \in Range(s)
    BY <1>1 DEF Range
  <1>3. /\ SubSeq(s, 1, n) \in Seq(Range(s))
        /\ Len(SubSeq(s, 1, n)) = IF 1 <= n THEN n - 1 + 1 ELSE 0
        /\ \A i \in 1..(n - 1 + 1) : SubSeq(s, 1, n)[i] = s[1 + i - 1]
    BY <1>1, <1>2, SubSeqProperties
  <1>4. Len(SubSeq(s, 1, n)) = n /\ \A i \in 1..n : SubSeq(s, 1, n)[i] = s[i]
    BY <1>1, <1>3
  <1> QED BY <1>3, <1>4, SequenceOf

\* Pop keeps all but the last.
LEMMA Popped ==
  ASSUME NEW s, IsSequence(s), s # << >>
  PROVE  /\ Len(s) \in Nat \ {0}
         /\ IsSequence(Pop(s)) /\ Len(Pop(s)) = Len(s) - 1
         /\ \A i \in 1..(Len(s) - 1) : Pop(s)[i] = s[i]
  <1>1. Len(s) \in Nat \ {0}
    BY EmptySeq DEF IsSequence
  <1>2. Len(s) - 1 \in 0..Len(s)
    BY <1>1
  <1>3. /\ IsSequence(SubSeq(s, 1, Len(s) - 1))
        /\ Len(SubSeq(s, 1, Len(s) - 1)) = Len(s) - 1
        /\ \A i \in 1..(Len(s) - 1) : SubSeq(s, 1, Len(s) - 1)[i] = s[i]
    BY <1>2, Prefix
  <1> QED BY <1>1, <1>3 DEF Pop

\* Overwriting leaves the length and what is outside the new bytes.
LEMMA OverwrittenFacts ==
  ASSUME NEW s, IsSequence(s), NEW at, NEW new
  PROVE  /\ IsSequence(Overwritten(s, at, new))
         /\ Len(Overwritten(s, at, new)) = Len(s)
         /\ \A i \in 1..Len(s) : i - at \notin DOMAIN new => Overwritten(s, at, new)[i] = s[i]
  <1>1. Len(s) \in Nat /\ DOMAIN s = 1..Len(s)
    BY SequenceFacts
  <1> DEFINE o == Overwritten(s, at, new)
  <1>2. o = [i \in 1..Len(s) |-> o[i]]
    BY <1>1 DEF Overwritten
  <1>3. IsSequence(o) /\ Len(o) = Len(s)
    <2> HIDE DEF o
    <2> QED BY <1>1, <1>2, FunctionIsSequence
  <1> QED BY <1>1, <1>3 DEF Overwritten

-----------------------------------------------------------------------------
(* Frames.                                                                 *)

\* A target is a property of the frames' kinds alone.
LEMMA SameKinds ==
  ASSUME NEW F, NEW G, NEW k \in Nat, NEW t,
         \A j \in 1..k : G[j].kind = F[j].kind,
         TargetIn(F, t, k)
  PROVE  TargetIn(G, t, k)
  BY DEF TargetIn

\* A frame that points where another does has its placeholder.
LEMMA SamePlaceholder ==
  ASSUME NEW f, NEW g, NEW bytes, PlaceholderIn(f, bytes),
         g.sizeAt = f.sizeAt, g.width = f.width, g.payloadAt = f.payloadAt
  PROVE  PlaceholderIn(g, bytes)
  BY DEF PlaceholderIn

\* Frames that differ only in what their buffers hold, every placeholder kept.
LEMMA SamePlaceholders ==
  ASSUME NEW F, NEW G, NEW s, NEW z, FramesOK(F, s),
         IsSequence(z), IsSequence(G), Len(G) = Len(F),
         \A k \in 1..Len(F) : SameFrame(G[k], F[k]),
         \A k \in 1..Len(F) : F[k].kind = "reserved" =>
           PlaceholderIn(F[k], BytesIn(G, z, F[k].target))
  PROVE  FramesOK(G, z)
  <1>1. Len(F) \in Nat
    BY SequenceFacts DEF FramesOK
  <1>2. \A k \in 1..Len(F) :
          /\ IsFrame(G[k])
          /\ G[k].kind = F[k].kind /\ G[k].prev = F[k].prev /\ G[k].target = F[k].target
          /\ G[k].width = F[k].width /\ G[k].sizeAt = F[k].sizeAt
          /\ G[k].payloadAt = F[k].payloadAt
    BY DEF SameFrame
  <1>3. \A k \in 1..Len(G) :
          /\ IsFrame(G[k])
          /\ G[k].kind = "buffered" => TargetIn(G, G[k].prev, k - 1)
          /\ G[k].kind = "reserved" =>
               /\ TargetIn(G, G[k].target, k - 1)
               /\ PlaceholderIn(G[k], BytesIn(G, z, G[k].target))
    <2> TAKE k \in 1..Len(G)
    <2>1. k - 1 \in Nat /\ \A j \in 1..(k - 1) : j \in 1..Len(F)
      BY <1>1
    <2>2. \A j \in 1..(k - 1) : G[j].kind = F[j].kind
      BY <2>1, <1>2
    <2>3. G[k].kind = "buffered" => TargetIn(G, G[k].prev, k - 1)
      BY <2>1, <2>2, <1>2, SameKinds DEF FramesOK
    <2>4. G[k].kind = "reserved" => TargetIn(G, G[k].target, k - 1)
      BY <2>1, <2>2, <1>2, SameKinds DEF FramesOK
    <2>5. G[k].kind = "reserved" => PlaceholderIn(G[k], BytesIn(G, z, G[k].target))
      <3>1. /\ G[k].kind = F[k].kind /\ G[k].target = F[k].target
            /\ G[k].sizeAt = F[k].sizeAt /\ G[k].width = F[k].width
            /\ G[k].payloadAt = F[k].payloadAt
        BY <1>2
      <3>2. F[k].kind = "reserved" => PlaceholderIn(F[k], BytesIn(G, z, F[k].target))
        OBVIOUS
      <3> QED BY <3>1, <3>2, SamePlaceholder
    <2> QED BY <1>2, <2>3, <2>4, <2>5
  <1>4. \A k \in 1..Len(G) : \A j \in 1..(k - 1) :
          /\ G[j].kind = "reserved" /\ G[k].kind = "reserved"
          /\ G[j].target = G[k].target
          => G[j].payloadAt <= G[k].sizeAt
    <2> TAKE k \in 1..Len(G)
    <2> TAKE j \in 1..(k - 1)
    <2>1. j \in 1..Len(F)
      BY <1>1
    <2> QED BY <2>1, <1>2 DEF FramesOK
  <1> QED BY <1>3, <1>4 DEF FramesOK

\* A placeholder is kept by any bytes that are as long and agree up to its end.
LEMMA PlaceholderKept ==
  ASSUME NEW f, NEW b, NEW c, PlaceholderIn(f, b), IsSequence(b), IsSequence(c),
         Len(c) >= Len(b), \A i \in (f.sizeAt + 1)..f.payloadAt : c[i] = b[i]
  PROVE  PlaceholderIn(f, c)
  <1>1. Len(b) \in Nat /\ Len(c) \in Nat
    BY SequenceFacts
  <1>2. \A i \in 1..f.width : c[f.sizeAt + i] = b[f.sizeAt + i]
    <2> TAKE i \in 1..f.width
    <2>1. f.sizeAt + i \in (f.sizeAt + 1)..f.payloadAt
      BY DEF PlaceholderIn
    <2> QED BY <2>1
  <1> QED BY <1>1, <1>2 DEF PlaceholderIn

\* A frame that points into a target of the stack, behind every placeholder of that
\* target, may be pushed.
LEMMA PushedFrame ==
  ASSUME NEW F, NEW s, NEW f, FramesOK(F, s), IsFrame(f),
         f.kind = "buffered" => TargetIn(F, f.prev, Len(F)),
         f.kind = "reserved" =>
           /\ TargetIn(F, f.target, Len(F))
           /\ PlaceholderIn(f, BytesIn(F, s, f.target))
           /\ \A j \in 1..Len(F) : F[j].kind = "reserved" /\ F[j].target = f.target
                                    => F[j].payloadAt <= f.sizeAt
  PROVE  FramesOK(Append(F, f), s)
  <1> DEFINE G == Append(F, f)
  <1>1. /\ IsSequence(G) /\ Len(F) \in Nat /\ Len(G) = Len(F) + 1
        /\ \A i \in 1..Len(F) : G[i] = F[i]
        /\ G[Len(F) + 1] = f
    BY Appended, SequenceFacts DEF FramesOK
  <1> HIDE DEF G
  <1>2. \A k \in 0..Len(F) : \A t : TargetIn(F, t, k) =>
          /\ TargetIn(G, t, k)
          /\ BytesIn(G, s, t) = BytesIn(F, s, t)
    BY <1>1 DEF TargetIn, BytesIn
  <1>3. \A k \in 1..Len(G) :
          /\ IsFrame(G[k])
          /\ G[k].kind = "buffered" => TargetIn(G, G[k].prev, k - 1)
          /\ G[k].kind = "reserved" =>
               /\ TargetIn(G, G[k].target, k - 1)
               /\ PlaceholderIn(G[k], BytesIn(G, s, G[k].target))
    <2> TAKE k \in 1..Len(G)
    <2>1. CASE k = Len(F) + 1
      <3>1. k - 1 = Len(F) /\ Len(F) \in 0..Len(F) /\ G[k] = f
        BY <2>1, <1>1
      <3> QED BY <3>1, <1>2
    <2>2. CASE k \in 1..Len(F)
      <3>1. k - 1 \in 0..Len(F) /\ G[k] = F[k]
        BY <2>2, <1>1
      <3> QED BY <2>2, <3>1, <1>2 DEF FramesOK
    <2> QED BY <1>1, <2>1, <2>2
  <1>4. \A k \in 1..Len(G) : \A j \in 1..(k - 1) :
          /\ G[j].kind = "reserved" /\ G[k].kind = "reserved"
          /\ G[j].target = G[k].target
          => G[j].payloadAt <= G[k].sizeAt
    <2> TAKE k \in 1..Len(G)
    <2> TAKE j \in 1..(k - 1)
    <2>1. j \in 1..Len(F) /\ G[j] = F[j]
      BY <1>1
    <2>2. CASE k = Len(F) + 1 BY <2>1, <2>2, <1>1
    <2>3. CASE k \in 1..Len(F) BY <2>1, <2>3, <1>1 DEF FramesOK
    <2> QED BY <1>1, <2>2, <2>3
  <1>5. FramesOK(G, s)
    BY <1>1, <1>3, <1>4 DEF FramesOK
  <1> QED BY <1>5 DEF G

\* Popping a frame leaves the targets below it, and their bytes, as they were.
LEMMA PoppedFrames ==
  ASSUME NEW F, NEW s, FramesOK(F, s), F # << >>
  PROVE  /\ Len(F) \in Nat \ {0}
         /\ FramesOK(Pop(F), s) /\ Len(Pop(F)) = Len(F) - 1
         /\ \A i \in 1..(Len(F) - 1) : Pop(F)[i] = F[i]
         /\ \A k \in 0..(Len(F) - 1) : \A t : TargetIn(F, t, k) =>
              /\ TargetIn(Pop(F), t, k)
              /\ BytesIn(Pop(F), s, t) = BytesIn(F, s, t)
  <1> DEFINE G == Pop(F)
  <1>1. /\ IsSequence(G) /\ Len(F) \in Nat \ {0} /\ Len(G) = Len(F) - 1
        /\ \A i \in 1..(Len(F) - 1) : G[i] = F[i]
    BY Popped DEF FramesOK
  <1> HIDE DEF G
  <1>2. \A k \in 0..(Len(F) - 1) : \A t : TargetIn(F, t, k) =>
          /\ TargetIn(G, t, k)
          /\ BytesIn(G, s, t) = BytesIn(F, s, t)
    BY <1>1 DEF TargetIn, BytesIn
  <1>3. \A k \in 1..Len(G) :
          /\ IsFrame(G[k])
          /\ G[k].kind = "buffered" => TargetIn(G, G[k].prev, k - 1)
          /\ G[k].kind = "reserved" =>
               /\ TargetIn(G, G[k].target, k - 1)
               /\ PlaceholderIn(G[k], BytesIn(G, s, G[k].target))
    <2> TAKE k \in 1..Len(G)
    <2>1. k \in 1..Len(F) /\ k - 1 \in 0..(Len(F) - 1) /\ G[k] = F[k]
      BY <1>1
    <2> QED BY <2>1, <1>2 DEF FramesOK
  <1>4. \A k \in 1..Len(G) : \A j \in 1..(k - 1) :
          /\ G[j].kind = "reserved" /\ G[k].kind = "reserved"
          /\ G[j].target = G[k].target
          => G[j].payloadAt <= G[k].sizeAt
    <2> TAKE k \in 1..Len(G)
    <2> TAKE j \in 1..(k - 1)
    <2>1. k \in 1..Len(F) /\ G[j] = F[j] /\ G[k] = F[k]
      BY <1>1
    <2> QED BY <2>1 DEF FramesOK
  <1>5. FramesOK(G, s)
    BY <1>1, <1>3, <1>4 DEF FramesOK
  <1> QED BY <1>1, <1>2, <1>5 DEF G

\* One target's bytes are others, every placeholder in it kept.
LEMMA RewrittenSink ==
  ASSUME NEW F, NEW s, NEW c, FramesOK(F, s), IsSequence(c),
         \A k \in 1..Len(F) : F[k].kind = "reserved" /\ F[k].target = 0
                              => PlaceholderIn(F[k], c)
  PROVE  FramesOK(F, c)
  <1>1. \A k \in 1..Len(F) : SameFrame(F[k], F[k])
    BY DEF FramesOK, SameFrame
  <1>2. \A k \in 1..Len(F) : F[k].kind = "reserved"
          => PlaceholderIn(F[k], BytesIn(F, c, F[k].target))
    BY DEF FramesOK, BytesIn
  <1> QED BY <1>1, <1>2, SamePlaceholders DEF FramesOK

Rebuffered(F, t, c) == [F EXCEPT ![t].buf = c]

\* A buffer given other contents changes nothing else of any frame.
LEMMA RebufferedFrames ==
  ASSUME NEW F, NEW s, FramesOK(F, s), NEW t \in 1..Len(F), NEW c, IsSequence(c)
  PROVE  /\ IsSequence(Rebuffered(F, t, c)) /\ Len(Rebuffered(F, t, c)) = Len(F)
         /\ \A k \in 1..Len(F) : SameFrame(Rebuffered(F, t, c)[k], F[k])
         /\ Rebuffered(F, t, c)[t].buf = c
         /\ \A k \in 1..Len(F) : k # t => Rebuffered(F, t, c)[k] = F[k]
  <1> DEFINE G == Rebuffered(F, t, c)
  <1>1. Len(F) \in Nat /\ DOMAIN F = 1..Len(F)
    BY SequenceFacts DEF FramesOK
  <1>2. G = [k \in 1..Len(F) |-> IF k = t THEN [F[t] EXCEPT !.buf = c] ELSE F[k]]
    BY <1>1 DEF Rebuffered
  <1>3. [F[t] EXCEPT !.buf = c]
          = [id |-> F[t].id, kind |-> F[t].kind, buf |-> c, prev |-> F[t].prev,
             crcID |-> F[t].crcID, target |-> F[t].target, width |-> F[t].width,
             sizeAt |-> F[t].sizeAt, payloadAt |-> F[t].payloadAt]
    <2>1. F[t] = [id |-> F[t].id, kind |-> F[t].kind, buf |-> F[t].buf, prev |-> F[t].prev,
                  crcID |-> F[t].crcID, target |-> F[t].target, width |-> F[t].width,
                  sizeAt |-> F[t].sizeAt, payloadAt |-> F[t].payloadAt]
      BY DEF FramesOK, IsFrame
    <2> QED BY <2>1
  <1> HIDE DEF G
  <1>4. G = [k \in 1..Len(F) |-> G[k]]
    BY <1>2
  <1>5. IsSequence(G) /\ Len(G) = Len(F)
    BY <1>1, <1>4, FunctionIsSequence
  <1>6. /\ G[t] = [id |-> F[t].id, kind |-> F[t].kind, buf |-> c, prev |-> F[t].prev,
                   crcID |-> F[t].crcID, target |-> F[t].target, width |-> F[t].width,
                   sizeAt |-> F[t].sizeAt, payloadAt |-> F[t].payloadAt]
        /\ \A k \in 1..Len(F) : k # t => G[k] = F[k]
    BY <1>2, <1>3
  <1>7. SameFrame(G[t], F[t]) /\ G[t].buf = c
    <2>1. IsFrame(F[t])
      BY DEF FramesOK
    <2> QED BY <1>6, <2>1 DEF SameFrame, IsFrame
  <1>8. \A k \in 1..Len(F) : SameFrame(G[k], F[k])
    <2> TAKE k \in 1..Len(F)
    <2>1. CASE k = t BY <1>7, <2>1
    <2>2. CASE k # t BY <1>6, <2>2 DEF SameFrame, FramesOK
    <2> QED BY <2>1, <2>2
  <1> QED BY <1>5, <1>6, <1>7, <1>8 DEF G

\* Contents that keep the placeholders of their buffer keep the frames.
LEMMA RewrittenBuffer ==
  ASSUME NEW F, NEW s, FramesOK(F, s), NEW c, IsSequence(c), NEW t \in 1..Len(F),
         \A k \in 1..Len(F) : F[k].kind = "reserved" /\ F[k].target = t
                              => PlaceholderIn(F[k], c)
  PROVE  /\ FramesOK(Rebuffered(F, t, c), s)
         /\ \A k \in 0..Len(F) : \A u \in 0..k : TargetIn(F, u, k) =>
              /\ TargetIn(Rebuffered(F, t, c), u, k)
              /\ BytesIn(Rebuffered(F, t, c), s, u) = IF u = t THEN c ELSE BytesIn(F, s, u)
  <1> DEFINE G == Rebuffered(F, t, c)
  <1>1. Len(F) \in Nat
    BY SequenceFacts DEF FramesOK
  <1>2. /\ IsSequence(G) /\ Len(G) = Len(F)
        /\ \A k \in 1..Len(F) : SameFrame(G[k], F[k])
        /\ G[t].buf = c
        /\ \A k \in 1..Len(F) : k # t => G[k] = F[k]
    BY RebufferedFrames
  <1> HIDE DEF G
  <1>3. \A k \in 0..Len(F) : \A u \in 0..k : TargetIn(F, u, k) => TargetIn(G, u, k)
    BY <1>1, <1>2 DEF TargetIn, SameFrame
  <1>4. \A u \in 0..Len(F) : BytesIn(G, s, u) = IF u = t THEN c ELSE BytesIn(F, s, u)
    BY <1>1, <1>2 DEF BytesIn
  <1>5. \A k \in 1..Len(F) : F[k].kind = "reserved"
          => PlaceholderIn(F[k], BytesIn(G, s, F[k].target))
    <2> TAKE k \in 1..Len(F)
    <2> HAVE F[k].kind = "reserved"
    <2>1. TargetIn(F, F[k].target, k - 1) /\ PlaceholderIn(F[k], BytesIn(F, s, F[k].target))
      BY DEF FramesOK
    <2>2. F[k].target \in 0..Len(F)
      BY <1>1, <2>1 DEF TargetIn
    <2>3. CASE F[k].target = t BY <1>4, <2>2, <2>3
    <2>4. CASE F[k].target # t BY <1>4, <2>1, <2>2, <2>4
    <2> QED BY <2>3, <2>4
  <1>6. IsSequence(s)
    BY DEF FramesOK
  <1>7. FramesOK(G, s)
    BY <1>2, <1>5, <1>6, SamePlaceholders
  <1>8. \A k \in 0..Len(F) : \A u \in 0..k : u \in 0..Len(F)
    BY <1>1
  <1> QED BY <1>3, <1>4, <1>7, <1>8 DEF G

-----------------------------------------------------------------------------
(* What is written is a sequence of bytes.                                 *)

\* The largest size is a number.
LEMMA KnownSizeIsInt == MaxKnownSize \in Int
  <1>1. SizeBits * MaxSizeWidth \in Nat
    BY WriterAssumption
  <1> QED BY <1>1 DEF MaxKnownSize, MaxSizeForWidth

\* A size that is known fits some width.
LEMMA SmallestWidth ==
  ASSUME NEW n \in Nat, n <= MaxKnownSize
  PROVE  SizeWidth(n) \in 1..MaxSizeWidth
  <1> DEFINE Fits == {w \in 1..MaxSizeWidth : n <= MaxSizeForWidth(w)}
  <1>1. MaxSizeWidth \in Fits
    BY WriterAssumption DEF MaxKnownSize
  <1>2. Fits \subseteq Nat /\ Fits # {}
    BY <1>1, WriterAssumption
  <1>3. PICK w \in Fits : \A v \in Fits : <<v, w>> \notin OpToRel(<, Nat)
    <2> HIDE DEF Fits
    <2> QED BY <1>2, NatLessThanWellFounded, WFMin
  <1>4. \A v \in Fits : ~(v < w)
    BY <1>2, <1>3 DEF OpToRel
  <1>5. \A v \in 1..(w - 1) : v \in 1..MaxSizeWidth /\ v < w
    BY WriterAssumption
  <1>6. \A v \in 1..(w - 1) : ~(n <= MaxSizeForWidth(v))
    BY <1>4, <1>5
  <1>7. w \in 1..MaxSizeWidth /\ n <= MaxSizeForWidth(w)
    OBVIOUS
  <1> QED BY <1>6, <1>7 DEF SizeWidth

\* The bytes of an ID are a sequence.
LEMMA IDBytes ==
  ASSUME NEW id \in ElementID
  PROVE  IsSequence(EncodeID(id)) /\ Len(EncodeID(id)) \in Nat
  <1>1. IDWidth[id] \in Nat
    BY WriterAssumption
  <1> DEFINE s == EncodeID(id)
  <1>2. s = [i \in 1..IDWidth[id] |-> s[i]]
    BY DEF EncodeID
  <1> HIDE DEF s
  <1>3. IsSequence(s) /\ Len(s) = IDWidth[id]
    BY <1>1, <1>2, FunctionIsSequence
  <1> QED BY <1>1, <1>3 DEF s

\* The bytes of a size are as many as its width.
LEMMA SizeSequence ==
  ASSUME NEW n, NEW width \in Nat
  PROVE  IsSequence(SizeBytes(n, width)) /\ Len(SizeBytes(n, width)) = width
  <1> DEFINE s == SizeBytes(n, width)
  <1>1. s = [i \in 1..width |-> s[i]]
    BY DEF SizeBytes
  <1> HIDE DEF s
  <1>2. IsSequence(s) /\ Len(s) = width
    BY <1>1, FunctionIsSequence
  <1> QED BY <1>2 DEF s

\* A payload has as many bytes as its size says.
LEMMA PayloadSequence ==
  ASSUME NEW n \in Nat
  PROVE  IsSequence(Payload(n)) /\ Len(Payload(n)) = n
  <1> DEFINE s == Payload(n)
  <1>1. s = [i \in 1..n |-> s[i]]
    BY DEF Payload
  <1> HIDE DEF s
  <1>2. IsSequence(s) /\ Len(s) = n
    BY <1>1, FunctionIsSequence
  <1> QED BY <1>2 DEF s

\* The unknown size is a sequence of bytes.
LEMMA UnknownSequence == IsSequence(UnknownSizeVINT)
  <1> DEFINE s == UnknownSizeVINT
  <1>1. s = [i \in 1..MaxSizeWidth |-> s[i]] /\ MaxSizeWidth \in Nat
    BY WriterAssumption DEF UnknownSizeVINT, UnknownSizeVINTWidth
  <1> HIDE DEF s
  <1>2. IsSequence(s)
    BY <1>1, FunctionIsSequence
  <1> QED BY <1>2 DEF s

\* So is a checksum element.
LEMMA ChecksumSequence ==
  ASSUME NEW id \in ElementID, NEW covered
  PROVE  IsSequence(ChecksumElement(id, covered))
  <1> DEFINE s == Checksum(covered)
  <1>1. s = [i \in 1..4 |-> s[i]]
    BY DEF Checksum
  <1> HIDE DEF s
  <1>2. IsSequence(s)
    BY <1>1, FunctionIsSequence
  <1>3. IsSequence(Checksum(covered))
    BY <1>2 DEF s
  <1>4. SizeWidth(4) \in Nat
    <2>1. 4 <= MaxKnownSize
      BY WriterAssumption DEF MaxKnownSize, MaxSizeForWidth
    <2>2. SizeWidth(4) \in 1..MaxSizeWidth
      BY <2>1, SmallestWidth
    <2> QED BY <2>2, WriterAssumption
  <1>5. IsSequence(EncodeSize(4))
    BY <1>4, SizeSequence DEF EncodeSize
  <1>6. IsSequence(EncodeID(id) \o EncodeSize(4))
    BY <1>5, IDBytes, Concatenated
  <1> QED BY <1>3, <1>6, Concatenated DEF ChecksumElement

\* A Buffered master's body is bytes, its checksum included.
LEMMA BodySequence ==
  ASSUME NEW f, IsFrame(f)
  PROVE  IsSequence(Body(f))
  <1>1. CASE f.crcID = "none" BY <1>1 DEF Body, IsFrame
  <1>2. CASE f.crcID # "none"
    <2>1. f.crcID \in ElementID
      BY <1>2 DEF IsFrame
    <2>2. IsSequence(ChecksumElement(f.crcID, f.buf)) /\ IsSequence(f.buf)
      BY <2>1, ChecksumSequence DEF IsFrame
    <2> QED BY <1>2, <2>2, Concatenated DEF Body
  <1> QED BY <1>1, <1>2

\* The bytes of a leaf that is not refused.
LEMMA LeafBytes ==
  ASSUME NEW id \in ElementID, NEW n \in PayloadSizes, NEW size,
         LeafResult(id, n, size) = "ok",
         NEW width, width = IF size.kind = "reserved" THEN size.width ELSE SizeWidth(n)
  PROVE  IsSequence(EncodeID(id) \o SizeBytes(n, width) \o Payload(n))
  <1>1. n \in Nat /\ width \in Nat
    <2>1. n \in Nat /\ MaxSizeWidth \in Nat
      BY WriterAssumption
    <2>2. CASE size.kind = "reserved"
      BY <2>1, <2>2 DEF LeafResult, SizeWidthResult
    <2>3. CASE size.kind # "reserved"
      <3>1. ~(n > MaxKnownSize)
        BY <2>3 DEF LeafResult
      <3>2. SizeWidth(n) \in 1..MaxSizeWidth
        BY <2>1, <3>1, SmallestWidth, KnownSizeIsInt
      <3> QED BY <2>1, <2>3, <3>2
    <2> QED BY <2>2, <2>3
  <1>2. IsSequence(EncodeID(id) \o SizeBytes(n, width))
    BY <1>1, IDBytes, SizeSequence, Concatenated
  <1> QED BY <1>1, <1>2, PayloadSequence, Concatenated

\* The bytes of a Buffered master that is complete.
LEMMA MasterBytes ==
  ASSUME NEW f, IsFrame(f), ~(Len(Body(f)) > MaxKnownSize)
  PROVE  IsSequence(EncodeID(f.id) \o EncodeSize(Len(Body(f))) \o Body(f))
  <1>1. IsSequence(Body(f)) /\ Len(Body(f)) \in Nat
    BY BodySequence, SequenceFacts
  <1>2. SizeWidth(Len(Body(f))) \in Nat
    <2>1. Len(Body(f)) <= MaxKnownSize
      BY <1>1, KnownSizeIsInt
    <2>2. SizeWidth(Len(Body(f))) \in 1..MaxSizeWidth
      BY <1>1, <2>1, SmallestWidth
    <2> QED BY <2>2, WriterAssumption
  <1>3. IsSequence(EncodeSize(Len(Body(f)))) /\ IsSequence(EncodeID(f.id))
    BY <1>2, SizeSequence, IDBytes DEF EncodeSize, IsFrame
  <1>4. IsSequence(EncodeID(f.id) \o EncodeSize(Len(Body(f))))
    BY <1>3, Concatenated
  <1> QED BY <1>1, <1>4, Concatenated

-----------------------------------------------------------------------------
(* Writing to a target.                                                    *)

ExtendedFrames(F, t, b) == IF t = 0 THEN F ELSE Rebuffered(F, t, F[t].buf \o b)
ExtendedSink(s, t, b) == IF t = 0 THEN s \o b ELSE s

\* What writeAll leaves when it does not fail.
LEMMA WriteAllEffect ==
  ASSUME NEW bytes, IsSequence(bytes), NEW t, NEW frames, NEW framesOnFailure,
         WriteAll(t, bytes, frames, framesOnFailure), failure' = "none"
  PROVE  /\ sink' = ExtendedSink(sink, t, bytes)
         /\ open' = ExtendedFrames(frames, t, bytes)
         /\ off' = IF t = 0 THEN off + Len(bytes) ELSE off
  <1>1. CASE t # 0
    BY <1>1 DEF WriteAll, ExtendedFrames, ExtendedSink, Rebuffered
  <1>2. CASE t = 0
    <2>1. PICK n \in 0..Len(bytes) :
            /\ sink' = sink \o SubSeq(bytes, 1, n)
            /\ off' = off + n
            /\ failure' \in IF n < Len(bytes) THEN {"Write"} ELSE {"none", "Write"}
            /\ open' = IF failure' = "none" THEN frames ELSE framesOnFailure
      BY <1>2 DEF WriteAll
    <2>2. Len(bytes) \in Nat
      BY SequenceFacts
    <2>3. n = Len(bytes)
      BY <2>1, <2>2
    <2>4. SubSeq(bytes, 1, Len(bytes)) = bytes
      BY SubSeqFull DEF IsSequence
    <2> QED BY <1>2, <2>1, <2>3, <2>4 DEF ExtendedFrames, ExtendedSink
  <1> QED BY <1>1, <1>2

\* Bytes appended to a target move no placeholder in any.
LEMMA Extended ==
  ASSUME NEW F, NEW s, FramesOK(F, s), NEW b, IsSequence(b), NEW t, TargetIn(F, t, Len(F)),
         NEW G, G = ExtendedFrames(F, t, b), NEW z, z = ExtendedSink(s, t, b)
  PROVE  /\ FramesOK(G, z) /\ Len(G) = Len(F)
         /\ \A k \in 1..Len(F) : SameFrame(G[k], F[k])
         /\ \A k \in 0..Len(F) : \A u \in 0..k : TargetIn(F, u, k) =>
              /\ TargetIn(G, u, k)
              /\ BytesIn(G, z, u) = IF u = t THEN BytesIn(F, s, t) \o b ELSE BytesIn(F, s, u)
  <1>1. Len(F) \in Nat /\ IsSequence(s) /\ t \in 0..Len(F)
    BY SequenceFacts DEF FramesOK, TargetIn
  <1> DEFINE old == BytesIn(F, s, t)
  <1>2. IsSequence(old)
    <2>1. t # 0 => IsFrame(F[t])
      BY <1>1 DEF FramesOK
    <2> QED BY <1>1, <2>1 DEF BytesIn, IsFrame
  <1>3. /\ IsSequence(old \o b) /\ Len(old \o b) = Len(old) + Len(b)
        /\ \A i \in 1..Len(old) : (old \o b)[i] = old[i]
        /\ Len(old) \in Nat /\ Len(b) \in Nat
    BY <1>2, Concatenated, SequenceFacts
  <1>4. \A k \in 1..Len(F) : F[k].kind = "reserved" /\ F[k].target = t
          => PlaceholderIn(F[k], old \o b)
    <2> TAKE k \in 1..Len(F)
    <2> HAVE F[k].kind = "reserved" /\ F[k].target = t
    <2>1. PlaceholderIn(F[k], old)
      BY DEF FramesOK
    <2> DEFINE new == old \o b
    <2>2. Len(new) >= Len(old) /\ IsSequence(new)
      BY <1>3
    <2>3. \A i \in (F[k].sizeAt + 1)..F[k].payloadAt : new[i] = old[i]
      BY <2>1, <1>3 DEF PlaceholderIn
    <2> HIDE DEF new, old
    <2>4. PlaceholderIn(F[k], new)
      BY <1>2, <2>1, <2>2, <2>3, PlaceholderKept
    <2> QED BY <2>4 DEF new, old
  <1>5. CASE t = 0
    <2>1. G = F /\ z = old \o b /\ old = s
      BY <1>5 DEF ExtendedFrames, ExtendedSink, BytesIn
    <2>2. FramesOK(F, old \o b)
      BY <1>3, <1>4, <1>5, RewrittenSink
    <2>3. \A k \in 1..Len(F) : SameFrame(F[k], F[k])
      BY DEF FramesOK, SameFrame
    <2> QED BY <2>1, <2>2, <2>3, <1>5 DEF BytesIn
  <1>6. CASE t # 0
    <2>1. G = Rebuffered(F, t, old \o b) /\ z = s /\ t \in 1..Len(F)
      BY <1>1, <1>6 DEF ExtendedFrames, ExtendedSink, BytesIn
    <2> DEFINE new == old \o b
    <2>2. /\ IsSequence(new)
          /\ \A k \in 1..Len(F) : F[k].kind = "reserved" /\ F[k].target = t
               => PlaceholderIn(F[k], new)
      BY <1>3, <1>4
    <2> HIDE DEF new
    <2>3. /\ FramesOK(Rebuffered(F, t, new), s)
          /\ \A k \in 0..Len(F) : \A u \in 0..k : TargetIn(F, u, k) =>
              /\ TargetIn(Rebuffered(F, t, new), u, k)
              /\ BytesIn(Rebuffered(F, t, new), s, u) = IF u = t THEN new ELSE BytesIn(F, s, u)
      BY <2>1, <2>2, RewrittenBuffer
    <2>4. /\ Len(Rebuffered(F, t, new)) = Len(F)
          /\ \A k \in 1..Len(F) : SameFrame(Rebuffered(F, t, new)[k], F[k])
      BY <2>1, <2>2, RebufferedFrames
    <2> QED BY <2>1, <2>3, <2>4 DEF new
  <1> QED BY <1>5, <1>6

\* It makes no difference whether a frame is pushed before or after the write.
LEMMA AppendedThenExtended ==
  ASSUME NEW F, IsSequence(F), NEW t \in 0..Len(F), NEW b, NEW f
  PROVE  ExtendedFrames(Append(F, f), t, b) = Append(ExtendedFrames(F, t, b), f)
  <1>1. CASE t = 0 BY <1>1 DEF ExtendedFrames
  <1>2. CASE t # 0
    <2>1. /\ Len(F) \in Nat /\ DOMAIN F = 1..Len(F)
          /\ IsSequence(Append(F, f)) /\ Len(Append(F, f)) = Len(F) + 1
          /\ \A i \in 1..Len(F) : Append(F, f)[i] = F[i]
          /\ Append(F, f)[Len(F) + 1] = f
      BY SequenceFacts, Appended
    <2> DEFINE c == F[t].buf \o b
               A == Rebuffered(Append(F, f), t, c)
               R == Rebuffered(F, t, c)
    <2>2. DOMAIN Append(F, f) = 1..(Len(F) + 1)
      BY <2>1, SequenceFacts
    <2> HIDE DEF c
    <2>3. A = [k \in 1..(Len(F) + 1) |->
                IF k = t THEN [Append(F, f)[t] EXCEPT !.buf = c] ELSE Append(F, f)[k]]
      BY <1>2, <2>1, <2>2 DEF Rebuffered
    <2>3a. [Append(F, f)[t] EXCEPT !.buf = c] = [F[t] EXCEPT !.buf = c]
      <3>1. Append(F, f)[t] = F[t]
        BY <1>2, <2>1
      <3> QED BY <3>1, Zenon
    <2>4. R = [k \in 1..Len(F) |-> IF k = t THEN [F[t] EXCEPT !.buf = c] ELSE F[k]]
      BY <2>1 DEF Rebuffered
    <2> DEFINE e == [F[t] EXCEPT !.buf = c]
    <2> HIDE DEF A, R, e
    <2>5. A = [k \in 1..(Len(F) + 1) |-> IF k = t THEN e ELSE Append(F, f)[k]]
      BY <2>3, <2>3a DEF e
    <2>6. R = [k \in 1..Len(F) |-> IF k = t THEN e ELSE F[k]]
      BY <2>4 DEF e
    <2>7. R = [k \in 1..Len(F) |-> R[k]] /\ A = [k \in 1..(Len(F) + 1) |-> A[k]]
      BY <2>5, <2>6
    <2>8. IsSequence(R) /\ Len(R) = Len(F) /\ IsSequence(A) /\ Len(A) = Len(F) + 1
      BY <2>1, <2>7, FunctionIsSequence
    <2>9. /\ IsSequence(Append(R, f)) /\ Len(Append(R, f)) = Len(F) + 1
          /\ \A i \in 1..Len(F) : Append(R, f)[i] = R[i]
          /\ Append(R, f)[Len(F) + 1] = f
      BY <2>8, Appended
    <2>10. \A i \in 1..(Len(F) + 1) : A[i] = Append(R, f)[i]
      <3> TAKE i \in 1..(Len(F) + 1)
      <3>1. CASE i = Len(F) + 1
        BY <1>2, <2>1, <2>5, <2>9, <3>1
      <3>2. CASE i \in 1..Len(F)
        <4>1. A[i] = IF i = t THEN e ELSE F[i]
          BY <2>1, <2>5, <3>2
        <4> QED BY <2>6, <2>9, <3>2, <4>1
      <3>3. i = Len(F) + 1 \/ i \in 1..Len(F)
        BY <2>1
      <3> QED BY <3>1, <3>2, <3>3
    <2>11. A = Append(R, f)
      <3> DEFINE S == Range(A) \cup Range(Append(R, f))
      <3>1. A \in Seq(S) /\ Append(R, f) \in Seq(S)
        BY <2>8, <2>9, SeqMonotonic DEF IsSequence
      <3> QED BY <2>8, <2>9, <2>10, <3>1, SeqEqual
    <2>12. Append(F, f)[t] = F[t]
      BY <1>2, <2>1
    <2> QED BY <1>2, <2>11, <2>12 DEF ExtendedFrames, A, R, c
  <1> QED BY <1>1, <1>2

\* Bytes overwritten behind every other placeholder of a target harm none of them.
LEMMA Patched ==
  ASSUME NEW F, NEW s, FramesOK(F, s), NEW t, TargetIn(F, t, Len(F)),
         NEW at \in Nat, NEW new, IsSequence(new),
         \A j \in 1..Len(F) : F[j].kind = "reserved" /\ F[j].target = t
                              => F[j].payloadAt <= at,
         NEW c, c = Overwritten(BytesIn(F, s, t), at, new)
  PROVE  /\ t = 0 => FramesOK(F, c) /\ Len(c) = Len(s)
         /\ t # 0 => /\ FramesOK(Rebuffered(F, t, c), s)
                     /\ Len(Rebuffered(F, t, c)) = Len(F)
                     /\ \A u \in 0..Len(F) :
                          TargetIn(F, u, Len(F)) => TargetIn(Rebuffered(F, t, c), u, Len(F))
  <1>1. Len(F) \in Nat /\ IsSequence(s) /\ t \in 0..Len(F)
    BY SequenceFacts DEF FramesOK, TargetIn
  <1> DEFINE old == BytesIn(F, s, t)
  <1>2. IsSequence(old)
    <2>1. t # 0 => IsFrame(F[t])
      BY <1>1 DEF FramesOK
    <2> QED BY <1>1, <2>1 DEF BytesIn, IsFrame
  <1>3. c = Overwritten(old, at, new)
    OBVIOUS
  <1>4. \A k \in 1..Len(F) : F[k].kind = "reserved" /\ F[k].target = t
          => PlaceholderIn(F[k], old)
    BY DEF FramesOK
  <1>5. t = 0 => old = s
    BY DEF BytesIn
  <1> HIDE DEF old
  <1>6. /\ IsSequence(c) /\ Len(c) = Len(old)
        /\ \A i \in 1..Len(old) : i - at \notin DOMAIN new => c[i] = old[i]
    BY <1>2, <1>3, OverwrittenFacts, SMTT(30)
  <1>7. \A k \in 1..Len(F) : F[k].kind = "reserved" /\ F[k].target = t
          => PlaceholderIn(F[k], c)
    <2> TAKE k \in 1..Len(F)
    <2> HAVE F[k].kind = "reserved" /\ F[k].target = t
    <2>1. PlaceholderIn(F[k], old) /\ F[k].payloadAt <= at
      BY <1>4
    <2>2. Len(old) \in Nat /\ Len(new) \in Nat /\ DOMAIN new = 1..Len(new)
      BY <1>2, SequenceFacts
    <2>3. \A i \in (F[k].sizeAt + 1)..F[k].payloadAt :
            i \in 1..Len(old) /\ i - at \notin DOMAIN new
      BY <2>1, <2>2 DEF PlaceholderIn
    <2>4. \A i \in (F[k].sizeAt + 1)..F[k].payloadAt : c[i] = old[i]
      BY <1>6, <2>3
    <2>5. Len(c) >= Len(old)
      BY <1>6, <2>2
    <2> QED BY <1>2, <1>6, <2>1, <2>4, <2>5, PlaceholderKept
  <1>8. t = 0 => FramesOK(F, c) /\ Len(c) = Len(s)
    BY <1>5, <1>6, <1>7, RewrittenSink
  <1>9. t # 0 => /\ FramesOK(Rebuffered(F, t, c), s)
                 /\ Len(Rebuffered(F, t, c)) = Len(F)
                 /\ \A u \in 0..Len(F) :
                      TargetIn(F, u, Len(F)) => TargetIn(Rebuffered(F, t, c), u, Len(F))
    <2> HAVE t # 0
    <2>1. t \in 1..Len(F) /\ Len(F) \in 0..Len(F)
      BY <1>1
    <2>2. Len(Rebuffered(F, t, c)) = Len(F)
      BY <2>1, <1>6, RebufferedFrames
    <2>3. /\ FramesOK(Rebuffered(F, t, c), s)
          /\ \A k \in 0..Len(F) : \A u \in 0..k : TargetIn(F, u, k) =>
               TargetIn(Rebuffered(F, t, c), u, k)
      BY <2>1, <1>6, <1>7, RewrittenBuffer
    <2> QED BY <2>1, <2>2, <2>3
  <1> QED BY <1>8, <1>9

-----------------------------------------------------------------------------
(* Steps.                                                                  *)

\* A new Writer satisfies the invariant.
LEMMA InitInv == Init => WriterInv
  <1> SUFFICES ASSUME Init PROVE WriterInv
    OBVIOUS
  <1>1. start \in Nat
    BY WriterAssumption DEF Init
  <1>2. IsSequence(sink) /\ off = Len(sink)
    BY <1>1, PayloadSequence DEF Init
  <1>3. IsSequence(open) /\ Len(open) = 0
    BY EmptySeq DEF Init, IsSequence
  <1>4. FramesOK(open, sink)
    BY <1>2, <1>3 DEF FramesOK
  <1>5. TargetIn(open, cur, Len(open))
    BY <1>3 DEF TargetIn, Init
  <1> QED BY <1>2, <1>4, <1>5 DEF WriterInv

\* A step that writes nothing and leaves the frames.
LEMMA UnchangedInv ==
  ASSUME WriterInv, UNCHANGED <<open, sink, cur, off>>, failure' = "none" => failure = "none"
  PROVE  WriterInv'
  BY DEF WriterInv

\* A leaf is appended to the current target.
LEMMA LeafInv ==
  ASSUME WriterInv, NEW id \in ElementID, NEW n \in PayloadSizes, NEW size \in Sizes,
         LeafWith(id, n, size)
  PROVE  WriterInv'
  <1> SUFFICES ASSUME failure' = "none"
               PROVE  /\ FramesOK(open', sink') /\ TargetIn(open', cur', Len(open'))
                      /\ off' = Len(sink')
    BY DEF WriterInv
  <1> DEFINE width == IF size.kind = "reserved" THEN size.width ELSE SizeWidth(n)
             bytes == EncodeID(id) \o SizeBytes(n, width) \o Payload(n)
  <1>1. /\ FramesOK(open, sink) /\ TargetIn(open, cur, Len(open)) /\ off = Len(sink)
        /\ LeafResult(id, n, size) = "ok" /\ cur' = cur
        /\ WriteAll(cur, bytes, open, open)
    BY DEF LeafWith, WriterInv, Usable
  <1>3. IsSequence(bytes)
    BY <1>1, LeafBytes
  <1> HIDE DEF bytes
  <1>4. /\ sink' = ExtendedSink(sink, cur, bytes)
        /\ open' = ExtendedFrames(open, cur, bytes)
        /\ off' = IF cur = 0 THEN off + Len(bytes) ELSE off
    BY <1>1, <1>3, WriteAllEffect
  <1>5. /\ FramesOK(open', sink') /\ Len(open') = Len(open)
        /\ \A k \in 0..Len(open) : \A u \in 0..k : TargetIn(open, u, k) => TargetIn(open', u, k)
    BY <1>1, <1>3, <1>4, Extended
  <1>6. Len(open) \in Nat /\ cur \in 0..Len(open) /\ IsSequence(sink)
    BY <1>1, SequenceFacts DEF FramesOK, TargetIn
  <1>7. TargetIn(open', cur', Len(open'))
    BY <1>1, <1>5, <1>6
  <1>8. off' = Len(sink')
    BY <1>1, <1>3, <1>4, <1>6, Concatenated DEF ExtendedSink
  <1> QED BY <1>5, <1>7, <1>8

\* A master that starts pushes a frame whose placeholder, if it has one, is what was
\* just written, behind every other.
LEMMA StartInv ==
  ASSUME WriterInv, NEW id \in ElementID, NEW size \in Sizes,
         NEW crcID \in ElementID \cup {"none"}, StartMaster(id, size, crcID)
  PROVE  WriterInv'
  <1> SUFFICES ASSUME failure' = "none"
               PROVE  /\ FramesOK(open', sink') /\ TargetIn(open', cur', Len(open'))
                      /\ off' = Len(sink')
    BY DEF WriterInv
  <1> DEFINE f == NewFrame(id, size, crcID)
             frames == Append(open, f)
             field == IF size.kind = "reserved" THEN SizeBytes(0, size.width)
                      ELSE UnknownSizeVINT
             bytes == EncodeID(id) \o field
  <1>1. /\ FramesOK(open, sink) /\ TargetIn(open, cur, Len(open)) /\ off = Len(sink)
        /\ StartResult(id, size, crcID) = "ok"
    BY DEF StartMaster, WriterInv, Usable
  <1>2. Len(open) \in Nat /\ cur \in 0..Len(open) /\ IsSequence(sink) /\ IsSequence(open)
    BY <1>1, SequenceFacts DEF FramesOK, TargetIn
  <1>3. /\ size.kind \in {"buffered", "unknown", "reserved"}
        /\ size.kind = "reserved" => size.width \in Nat
    BY WriterAssumption DEF Sizes, Buffered, UnknownSize, Reserved
  <1>4. /\ f.kind = size.kind /\ f.prev = cur /\ f.target = cur /\ f.width = size.width
        /\ f.sizeAt = Pos + Len(EncodeID(id))
        /\ f.payloadAt = Pos + Len(EncodeID(id)) + size.width
    BY DEF NewFrame
  <1>5. IsFrame(f)
    <2>1. IsSequence(<< >>)
      BY EmptySeq DEF IsSequence
    <2> QED BY <1>3, <2>1 DEF NewFrame, IsFrame
  <1>8. /\ IsSequence(BytesIn(open, sink, cur))
        /\ Len(BytesIn(open, sink, cur)) \in Nat
        /\ Pos = Len(BytesIn(open, sink, cur))
    <2>1. cur # 0 => IsFrame(open[cur])
      BY <1>1, <1>2 DEF FramesOK
    <2>2. IsSequence(BytesIn(open, sink, cur))
      BY <1>2, <2>1 DEF BytesIn, IsFrame
    <2> QED BY <1>1, <2>2, SequenceFacts DEF Pos, BytesIn
  <1>6. CASE size.kind = "buffered"
    <2>1. /\ open' = frames /\ cur' = Len(frames) /\ sink' = sink /\ off' = off
      BY <1>6 DEF StartMaster
    <2>2. FramesOK(frames, sink)
      <3> HIDE DEF f
      <3> QED BY <1>1, <1>4, <1>5, <1>6, PushedFrame
    <2>3. Len(frames) = Len(open) + 1 /\ frames[Len(open) + 1] = f
      BY <1>2, Appended
    <2>4. TargetIn(frames, Len(frames), Len(frames))
      BY <2>3, <1>2, <1>4, <1>6 DEF TargetIn
    <2> QED BY <1>1, <2>1, <2>2, <2>4
  <1>7. CASE size.kind # "buffered"
    <2>1. WriteAll(cur, bytes, frames, open) /\ cur' = cur
      BY <1>7 DEF StartMaster
    <2>2. /\ IsSequence(EncodeID(id)) /\ Len(EncodeID(id)) \in Nat
          /\ IsSequence(field)
      BY <1>3, IDBytes, SizeSequence, UnknownSequence
    <2>3. /\ IsSequence(bytes) /\ Len(bytes) = Len(EncodeID(id)) + Len(field)
          /\ \A i \in 1..Len(field) : bytes[Len(EncodeID(id)) + i] = field[i]
      BY <2>2, Concatenated
    <2> HIDE DEF bytes, f
    <2>4. /\ sink' = ExtendedSink(sink, cur, bytes)
          /\ open' = ExtendedFrames(frames, cur, bytes)
          /\ off' = IF cur = 0 THEN off + Len(bytes) ELSE off
      BY <2>1, <2>3, WriteAllEffect
    <2> DEFINE G == ExtendedFrames(open, cur, bytes)
               z == ExtendedSink(sink, cur, bytes)
    <2>5. /\ FramesOK(G, z) /\ Len(G) = Len(open)
          /\ \A k \in 1..Len(open) : SameFrame(G[k], open[k])
          /\ \A k \in 0..Len(open) : \A u \in 0..k : TargetIn(open, u, k) =>
               /\ TargetIn(G, u, k)
               /\ BytesIn(G, z, u)
                    = IF u = cur THEN BytesIn(open, sink, cur) \o bytes ELSE BytesIn(open, sink, u)
      <3> HIDE DEF field
      <3> QED BY <1>1, <2>3, Extended, SMTT(30)
    <2>6. /\ TargetIn(G, cur, Len(open))
          /\ BytesIn(G, z, cur) = BytesIn(open, sink, cur) \o bytes
      BY <1>1, <1>2, <2>5
    <2>7. ExtendedFrames(frames, cur, bytes) = Append(G, f)
      BY <1>2, AppendedThenExtended
    <2>8. f.kind = "reserved" => PlaceholderIn(f, BytesIn(G, z, cur))
      <3> SUFFICES ASSUME size.kind = "reserved"
                   PROVE  PlaceholderIn(f, BytesIn(G, z, cur))
        BY <1>4
      <3> DEFINE old == BytesIn(open, sink, cur)
                 new == old \o bytes
      <3>1. field = SizeBytes(0, size.width) /\ Len(field) = size.width /\ size.width \in Nat
        BY <1>3, SizeSequence
      <3>2. /\ IsSequence(old) /\ Len(old) \in Nat /\ Pos = Len(old)
        BY <1>8
      <3> HIDE DEF old, field
      <3>3. /\ Len(new) = Len(old) + Len(bytes)
            /\ \A i \in 1..Len(bytes) : new[Len(old) + i] = bytes[i]
        BY <2>3, <3>2, Concatenated
      <3>4. \A i \in 1..f.width : new[f.sizeAt + i] = SizeBytes(0, f.width)[i]
        <4> TAKE i \in 1..f.width
        <4>1. i \in 1..Len(field) /\ Len(EncodeID(id)) + i \in 1..Len(bytes)
          BY <1>4, <2>2, <2>3, <3>1
        <4>2. f.sizeAt + i = Len(old) + (Len(EncodeID(id)) + i)
          BY <1>4, <2>2, <3>2, <3>1, <4>1
        <4>3. new[f.sizeAt + i] = field[i]
          BY <2>3, <3>3, <4>1, <4>2
        <4> QED BY <1>4, <3>1, <4>3
      <3>5. BytesIn(G, z, cur) = new
        BY <2>6 DEF old
      <3>6. f.sizeAt \in Nat /\ f.width \in Nat /\ f.payloadAt = f.sizeAt + f.width
            /\ f.payloadAt <= Len(new)
        BY <1>4, <2>2, <2>3, <3>1, <3>2, <3>3
      <3> HIDE DEF new
      <3> QED BY <3>4, <3>5, <3>6 DEF PlaceholderIn
    <2>9. \A j \in 1..Len(G) : G[j].kind = "reserved" /\ G[j].target = cur
            => G[j].payloadAt <= f.sizeAt
      <3> TAKE j \in 1..Len(G)
      <3> HAVE G[j].kind = "reserved" /\ G[j].target = cur
      <3>1. j \in 1..Len(open) /\ open[j].kind = "reserved" /\ open[j].target = cur
            /\ G[j].payloadAt = open[j].payloadAt
        <4> HIDE DEF G, z
        <4> QED BY <2>5 DEF SameFrame
      <3>2. PlaceholderIn(open[j], BytesIn(open, sink, cur))
        BY <1>1, <3>1 DEF FramesOK
      <3>3. open[j].payloadAt <= Pos /\ open[j].payloadAt \in Int /\ Pos \in Nat
        BY <1>8, <3>2 DEF PlaceholderIn
      <3> QED BY <1>4, <2>2, <3>1, <3>3
    <2>10. FramesOK(Append(G, f), z)
      <3>1. FramesOK(G, z) /\ IsFrame(f) /\ f.kind # "buffered" /\ f.target = cur
            /\ TargetIn(G, cur, Len(G))
        BY <1>4, <1>5, <1>7, <2>5, <2>6
      <3> HIDE DEF G, z
      <3> QED BY <3>1, <2>8, <2>9, PushedFrame
    <2>11. /\ Len(Append(G, f)) = Len(open) + 1
           /\ \A i \in 1..Len(open) : Append(G, f)[i] = G[i]
           /\ Append(G, f)[Len(open) + 1] = f
      BY <2>5, Appended DEF FramesOK
    <2>12. TargetIn(Append(G, f), cur, Len(Append(G, f)))
      <3> HIDE DEF G
      <3> QED BY <1>2, <1>4, <1>7, <2>6, <2>11 DEF TargetIn
    <2>13. off' = Len(sink')
      BY <1>1, <1>2, <2>3, <2>4, Concatenated DEF ExtendedSink
    <2> QED BY <2>1, <2>4, <2>7, <2>10, <2>12, <2>13
  <1> QED BY <1>3, <1>6, <1>7

\* Ending a master of unknown size pops its frame.
LEMMA EndUnknownInv ==
  ASSUME WriterInv, EndUnknown
  PROVE  WriterInv'
  <1>1. /\ FramesOK(open, sink) /\ TargetIn(open, cur, Len(open)) /\ off = Len(sink)
        /\ open # << >> /\ open[Len(open)].kind = "unknown"
        /\ open' = Pop(open) /\ cur' = cur /\ sink' = sink /\ off' = off
    BY DEF EndUnknown, WriterInv, Usable, Top
  <1>2. /\ Len(open) \in Nat \ {0} /\ FramesOK(Pop(open), sink) /\ Len(Pop(open)) = Len(open) - 1
        /\ \A k \in 0..(Len(open) - 1) : \A t : TargetIn(open, t, k) => TargetIn(Pop(open), t, k)
    BY <1>1, PoppedFrames
  <1>3. TargetIn(open, cur, Len(open) - 1)
    BY <1>1, <1>2 DEF TargetIn
  <1>4. TargetIn(Pop(open), cur, Len(Pop(open)))
    BY <1>2, <1>3
  <1> QED BY <1>1, <1>2, <1>4 DEF WriterInv

\* Ending a Buffered master appends its buffer to the target that was current when
\* it began.
LEMMA EndBufferedInv ==
  ASSUME WriterInv, EndBuffered
  PROVE  WriterInv'
  <1> SUFFICES ASSUME failure' = "none"
               PROVE  /\ FramesOK(open', sink') /\ TargetIn(open', cur', Len(open'))
                      /\ off' = Len(sink')
    BY DEF WriterInv
  <1> DEFINE f == Top(open)
             bytes == EncodeID(f.id) \o EncodeSize(Len(Body(f))) \o Body(f)
  <1>1. /\ FramesOK(open, sink) /\ off = Len(sink)
        /\ open # << >> /\ f.kind = "buffered" /\ cur' = f.prev
        /\ ~(Len(Body(f)) > MaxKnownSize)
        /\ WriteAll(f.prev, bytes, Pop(open), Pop(open))
    BY DEF EndBuffered, WriterInv, Usable
  <1>2. /\ Len(open) \in Nat \ {0} /\ FramesOK(Pop(open), sink) /\ Len(Pop(open)) = Len(open) - 1
        /\ \A k \in 0..(Len(open) - 1) : \A t : TargetIn(open, t, k) => TargetIn(Pop(open), t, k)
    BY <1>1, PoppedFrames
  <1>3. IsFrame(f) /\ TargetIn(open, f.prev, Len(open) - 1)
    BY <1>1, <1>2 DEF FramesOK, Top
  <1>4. TargetIn(Pop(open), f.prev, Len(Pop(open)))
    BY <1>2, <1>3
  <1>5. IsSequence(bytes)
    BY <1>1, <1>3, MasterBytes
  <1> HIDE DEF bytes
  <1>6. /\ sink' = ExtendedSink(sink, f.prev, bytes)
        /\ open' = ExtendedFrames(Pop(open), f.prev, bytes)
        /\ off' = IF f.prev = 0 THEN off + Len(bytes) ELSE off
    BY <1>1, <1>5, WriteAllEffect
  <1> DEFINE P == Pop(open)
             t == f.prev
  <1>7. FramesOK(P, sink) /\ TargetIn(P, t, Len(P)) /\ Len(P) \in Nat /\ t \in 0..Len(P)
        /\ open' = ExtendedFrames(P, t, bytes) /\ sink' = ExtendedSink(sink, t, bytes)
        /\ IsSequence(sink)
    <2>1. FramesOK(P, sink) /\ TargetIn(P, t, Len(P)) /\ Len(P) \in Nat
          /\ open' = ExtendedFrames(P, t, bytes) /\ sink' = ExtendedSink(sink, t, bytes)
      BY <1>2, <1>4, <1>6
    <2>2. t \in 0..Len(P)
      BY <2>1 DEF TargetIn
    <2>3. IsSequence(sink)
      BY <2>1 DEF FramesOK
    <2> QED BY <2>1, <2>2, <2>3
  <1> HIDE DEF P, t
  <1>8. /\ FramesOK(open', sink') /\ Len(open') = Len(P)
        /\ \A k \in 0..Len(P) : \A u \in 0..k : TargetIn(P, u, k) => TargetIn(open', u, k)
    BY <1>5, <1>7, Extended
  <1>9. TargetIn(open', cur', Len(open'))
    <2>1. cur' = t
      BY <1>1 DEF t
    <2> QED BY <1>7, <1>8, <2>1
  <1>10. off' = Len(sink')
    BY <1>1, <1>5, <1>6, <1>7, Concatenated DEF ExtendedSink
  <1> QED BY <1>8, <1>9, <1>10

\* Ending a Reserved master overwrites its own placeholder, the last of its target.
LEMMA EndReservedInv ==
  ASSUME WriterInv, EndReserved
  PROVE  WriterInv'
  <1> SUFFICES ASSUME failure' = "none"
               PROVE  /\ FramesOK(open', sink') /\ TargetIn(open', cur', Len(open'))
                      /\ off' = Len(sink')
    BY DEF WriterInv
  <1> DEFINE f == Top(open)
             P == Pop(open)
             n == Pos - f.payloadAt
             new == SizeBytes(n, f.width)
  <1>1. /\ FramesOK(open, sink) /\ TargetIn(open, cur, Len(open)) /\ off = Len(sink)
        /\ open # << >> /\ f.kind = "reserved" /\ cur' = cur /\ off' = off
        /\ Patch(f, new)
    BY DEF EndReserved, WriterInv, Usable
  <1>2. /\ Len(open) \in Nat \ {0} /\ FramesOK(P, sink) /\ Len(P) = Len(open) - 1
        /\ \A i \in 1..(Len(open) - 1) : P[i] = open[i]
        /\ \A k \in 0..(Len(open) - 1) : \A t : TargetIn(open, t, k) => TargetIn(P, t, k)
    BY <1>1, PoppedFrames
  <1>3. /\ TargetIn(open, f.target, Len(open) - 1)
        /\ f.sizeAt \in Nat /\ f.width \in Nat
    BY <1>1, <1>2 DEF FramesOK, Top, PlaceholderIn
  <1>4. TargetIn(P, f.target, Len(P))
    BY <1>2, <1>3
  <1>5. TargetIn(P, cur, Len(P)) /\ cur \in 0..Len(P)
    <2>1. TargetIn(open, cur, Len(open) - 1)
      BY <1>1, <1>2 DEF TargetIn, Top
    <2>2. TargetIn(P, cur, Len(P))
      BY <1>2, <2>1
    <2> QED BY <2>2 DEF TargetIn
  <1>6. \A j \in 1..Len(P) : P[j].kind = "reserved" /\ P[j].target = f.target
          => P[j].payloadAt <= f.sizeAt
    <2> TAKE j \in 1..Len(P)
    <2>1. j \in 1..(Len(open) - 1) /\ Len(open) \in 1..Len(open) /\ P[j] = open[j]
      BY <1>2
    <2> QED BY <1>1, <2>1 DEF FramesOK, Top
  <1>7. IsSequence(new) /\ Len(new) \in Nat
    BY <1>3, SizeSequence
  <1> HIDE DEF P, n, new, f
  <1>8. CASE f.target = 0
    <2>1. PICK m \in 0..Len(new) :
            sink' = Overwritten(sink, f.sizeAt, SubSeq(new, 1, m)) /\ open' = P
      BY <1>1, <1>8 DEF Patch, P
    <2>2. IsSequence(SubSeq(new, 1, m))
      BY <1>7, Prefix
    <2>3. BytesIn(P, sink, 0) = sink
      BY DEF BytesIn
    <2> DEFINE part == SubSeq(new, 1, m)
               c == Overwritten(BytesIn(P, sink, 0), f.sizeAt, part)
    <2>4. sink' = c /\ IsSequence(part) /\ TargetIn(P, 0, Len(P))
      BY <1>4, <1>8, <2>1, <2>2, <2>3
    <2>5. \A j \in 1..Len(P) : P[j].kind = "reserved" /\ P[j].target = 0
            => P[j].payloadAt <= f.sizeAt
      BY <1>6, <1>8
    <2> HIDE DEF part
    <2>6. FramesOK(P, c) /\ Len(c) = Len(sink)
      BY <1>2, <1>3, <2>4, <2>5, Patched
    <2> QED BY <1>1, <1>5, <2>1, <2>4, <2>6
  <1>9. CASE f.target # 0
    <2> DEFINE t == f.target
               c == Overwritten(BytesIn(P, sink, t), f.sizeAt, new)
    <2>1. open' = [P EXCEPT ![t].buf = Overwritten(@, f.sizeAt, new)] /\ sink' = sink
      BY <1>1, <1>9 DEF Patch, P
    <2>2. BytesIn(P, sink, t) = P[t].buf
      BY <1>9 DEF BytesIn
    <2>3. open' = Rebuffered(P, t, c)
      BY <2>1, <2>2 DEF Rebuffered
    <2>4. t \in 0..Len(P) /\ TargetIn(P, t, Len(P))
          /\ \A j \in 1..Len(P) : P[j].kind = "reserved" /\ P[j].target = t
               => P[j].payloadAt <= f.sizeAt
      BY <1>4, <1>6 DEF TargetIn
    <2> HIDE DEF t
    <2>5. /\ FramesOK(Rebuffered(P, t, c), sink) /\ Len(Rebuffered(P, t, c)) = Len(P)
          /\ \A u \in 0..Len(P) : TargetIn(P, u, Len(P)) => TargetIn(Rebuffered(P, t, c), u, Len(P))
      <3>1. t # 0 BY <1>9 DEF t
      <3>2. c = Overwritten(BytesIn(P, sink, t), f.sizeAt, new)
        OBVIOUS
      <3>3. FramesOK(P, sink) /\ f.sizeAt \in Nat /\ IsSequence(new)
        BY <1>2, <1>3, <1>7
      <3> HIDE DEF c
      <3> DEFINE at == f.sizeAt
      <3>4. \A j \in 1..Len(P) : P[j].kind = "reserved" /\ P[j].target = t
              => P[j].payloadAt <= at
        BY <2>4
      <3>5. at \in Nat /\ c = Overwritten(BytesIn(P, sink, t), at, new)
        BY <3>2, <3>3
      <3> HIDE DEF at
      <3> QED BY <2>4, <3>1, <3>3, <3>4, <3>5, Patched
    <2> QED BY <1>1, <1>5, <2>1, <2>3, <2>5
  <1> QED BY <1>8, <1>9

\* The invariant is inductive: one lemma above for each call.
LEMMA NextInv == ASSUME WriterInv, [Next]_vars PROVE WriterInv'
  <1>1. CASE \E id \in ElementID, size \in Sizes, crcID \in ElementID \cup {"none"} :
               StartMaster(id, size, crcID)
    BY <1>1, StartInv
  <1>2. CASE \E id \in ElementID, n \in PayloadSizes, size \in Sizes : LeafWith(id, n, size)
    BY <1>2, LeafInv
  <1>3. CASE EndReserved BY <1>3, EndReservedInv
  <1>4. CASE EndUnknown BY <1>4, EndUnknownInv
  <1>5. CASE EndBuffered BY <1>5, EndBufferedInv
  <1>6. CASE Flush \/ Close
    BY <1>6, UnchangedInv DEF Flush, Close, Usable
  <1>7. CASE UNCHANGED vars
    BY <1>7, UnchangedInv DEF vars
  <1> QED BY <1>1, <1>2, <1>3, <1>4, <1>5, <1>6, <1>7
          DEF Next, CallAfterEnd, StartRefused, LeafRefused, EndRefused, FlushRefused

\* The invariant, read for the frames that are open, is the property.
LEMMA InvImplies == WriterInv => OpenPlaceholders
  <1> SUFFICES ASSUME WriterInv, failure = "none", NEW k \in DOMAIN open,
                      open[k].kind = "reserved"
               PROVE  /\ IsTargetAt(open[k].target, k - 1)
                      /\ open[k].payloadAt = open[k].sizeAt + open[k].width
                      /\ open[k].payloadAt <= Len(Bytes(open[k].target))
                      /\ \A i \in 1..open[k].width :
                           Bytes(open[k].target)[open[k].sizeAt + i]
                             = SizeBytes(0, open[k].width)[i]
    BY DEF OpenPlaceholders
  <1>1. FramesOK(open, sink) /\ k \in 1..Len(open)
    BY SequenceFacts DEF WriterInv, FramesOK
  <1>2. TargetIn(open, open[k].target, k - 1)
        /\ PlaceholderIn(open[k], BytesIn(open, sink, open[k].target))
    BY <1>1 DEF FramesOK
  <1>3. BytesIn(open, sink, open[k].target) = Bytes(open[k].target)
    BY DEF BytesIn, Bytes
  <1> QED BY <1>2, <1>3 DEF PlaceholderIn, TargetIn, IsTargetAt

\* While the Writer is usable, every open Reserved master's frame leads EndMaster
\* to that master's own placeholder, intact, in the target it was written to.
THEOREM PlaceholdersStay == Spec => []OpenPlaceholders
  <1>1. Init => WriterInv
    BY InitInv
  <1>2. WriterInv /\ [Next]_vars => WriterInv'
    BY NextInv
  <1>3. WriterInv => OpenPlaceholders
    BY InvImplies
  <1> QED BY <1>1, <1>2, <1>3, PTL DEF Spec

-----------------------------------------------------------------------------
(* What is in the sink stays.                                              *)

SinkGrows == Len(sink') >= Len(sink) /\ \A i \in DOMAIN sink : sink'[i] = sink[i]

\* What may become of the byte b of the sink.
MayBecome(b, c) ==
  c # b => \E width \in 1..MaxSizeWidth : \E part \in 1..width :
             /\ b = SizeBytes(0, width)[part]
             /\ \E n \in 1..MaxSizeForWidth(width) : c = SizeBytes(n, width)[part]

SinkIsKept == Len(sink') >= Len(sink) /\ \A i \in DOMAIN sink : MayBecome(sink[i], sink'[i])

\* writeAll appends, whether it fails or not.
LEMMA WriteAllAppends ==
  ASSUME IsSequence(sink), NEW bytes, IsSequence(bytes), NEW t, NEW frames,
         NEW framesOnFailure, WriteAll(t, bytes, frames, framesOnFailure)
  PROVE  SinkGrows
  <1>1. Len(sink) \in Nat /\ DOMAIN sink = 1..Len(sink) /\ Len(bytes) \in Nat
    BY SequenceFacts
  <1>2. CASE t # 0
    BY <1>1, <1>2 DEF WriteAll, SinkGrows
  <1>3. CASE t = 0
    <2>1. PICK n \in 0..Len(bytes) : sink' = sink \o SubSeq(bytes, 1, n)
      BY <1>3 DEF WriteAll
    <2>2. IsSequence(SubSeq(bytes, 1, n)) /\ Len(SubSeq(bytes, 1, n)) = n
      BY Prefix
    <2>3. Len(sink') = Len(sink) + n /\ \A i \in 1..Len(sink) : sink'[i] = sink[i]
      BY <2>1, <2>2, Concatenated
    <2> QED BY <1>1, <2>3 DEF SinkGrows
  <1> QED BY <1>2, <1>3

\* The size of a Reserved master goes where its zero size is, in that width, though
\* the patch may fail on the way.
LEMMA EndReservedKeeps ==
  ASSUME WriterInv, EndReserved
  PROVE  SinkIsKept
  <1> DEFINE f == Top(open)
             n == Pos - f.payloadAt
             new == SizeBytes(n, f.width)
  <1>1. /\ FramesOK(open, sink) /\ TargetIn(open, cur, Len(open)) /\ off = Len(sink)
        /\ open # << >> /\ f.kind = "reserved"
    BY DEF EndReserved, WriterInv, Usable
  <1>2. /\ Len(sink) \in Nat /\ DOMAIN sink = 1..Len(sink) /\ IsSequence(sink)
        /\ Len(open) \in Nat \ {0}
    BY <1>1, SequenceFacts, PoppedFrames DEF FramesOK
  <1>3. /\ TargetIn(open, f.target, Len(open) - 1)
        /\ PlaceholderIn(f, BytesIn(open, sink, f.target))
    BY <1>1, <1>2 DEF FramesOK, Top
  <1>4. cur = f.target
    <2>1. cur \in 0..(Len(open) - 1)
      BY <1>1, <1>2 DEF TargetIn, Top
    <2>2. f.target \in 0..(Len(open) - 1)
      BY <1>3 DEF TargetIn
    <2>3. ~(cur < f.target)
      BY <1>1, <1>2, <1>3, <2>1, <2>2 DEF TargetIn
    <2>4. ~(f.target < cur)
      BY <1>1, <1>2, <1>3, <2>1, <2>2 DEF TargetIn
    <2> QED BY <1>2, <2>1, <2>2, <2>3, <2>4
  <1>5. CASE sink' = sink
    BY <1>2, <1>5 DEF SinkIsKept, MayBecome
  <1>6. CASE sink' # sink
    <2>1. /\ f.target = 0 /\ SizeWidthResult(n, f.width) = "ok"
          /\ \E m \in 0..Len(new) : sink' = Overwritten(sink, f.sizeAt, SubSeq(new, 1, m))
      BY <1>6 DEF EndReserved, Patch
    <2>2. PICK m \in 0..Len(new) : sink' = Overwritten(sink, f.sizeAt, SubSeq(new, 1, m))
      BY <2>1
    <2>3. /\ f.sizeAt \in Nat /\ f.payloadAt = f.sizeAt + f.width
          /\ f.payloadAt <= Len(sink)
          /\ \A i \in 1..f.width : sink[f.sizeAt + i] = SizeBytes(0, f.width)[i]
      BY <1>3, <2>1 DEF PlaceholderIn, BytesIn
    <2>4. /\ f.width \in 1..MaxSizeWidth /\ MaxSizeWidth \in Nat /\ ~(n > MaxSizeForWidth(f.width))
          /\ f.width \in Nat
      BY <2>1, WriterAssumption DEF SizeWidthResult
    <2>5. n \in Nat
      BY <1>1, <1>2, <1>4, <2>1, <2>3, <2>4 DEF Pos
    <2>6. n \in 0..MaxSizeForWidth(f.width)
      <3>1. SizeBits * f.width \in Nat
        BY <2>4, WriterAssumption
      <3>2. MaxSizeForWidth(f.width) \in Int
        BY <3>1 DEF MaxSizeForWidth
      <3> QED BY <2>4, <2>5, <3>2
    <2> HIDE DEF n
    <2>7. /\ IsSequence(new) /\ Len(new) = f.width
          /\ \A i \in 1..f.width : new[i] = SizeBytes(n, f.width)[i]
      BY <2>4, SizeSequence
    <2> DEFINE part == SubSeq(new, 1, m)
    <2>8. /\ IsSequence(part) /\ Len(part) = m
          /\ DOMAIN part = 1..m /\ m \in 0..f.width
          /\ \A i \in 1..m : part[i] = SizeBytes(n, f.width)[i]
      <3> HIDE DEF new
      <3>1. IsSequence(part) /\ Len(part) = m /\ \A i \in 1..m : part[i] = new[i]
        BY <2>7, Prefix
      <3> QED BY <2>7, <3>1, SequenceFacts
    <2> HIDE DEF part, new
    <2>9. Len(sink') = Len(sink)
      BY <1>2, <2>2, OverwrittenFacts DEF part
    <2>10. ASSUME NEW i \in DOMAIN sink
           PROVE  MayBecome(sink[i], sink'[i])
      <3>1. sink'[i] = IF i - f.sizeAt \in 1..m THEN part[i - f.sizeAt] ELSE sink[i]
        BY <2>2, <2>8 DEF Overwritten, part
      <3>2. CASE i - f.sizeAt \notin 1..m
        BY <3>1, <3>2 DEF MayBecome
      <3>3. CASE i - f.sizeAt \in 1..m
        <4> DEFINE q == i - f.sizeAt
        <4>1. q \in 1..f.width /\ f.sizeAt + q = i
          BY <1>2, <2>3, <2>4, <2>8, <3>3
        <4>2. sink[i] = SizeBytes(0, f.width)[q] /\ sink'[i] = SizeBytes(n, f.width)[q]
          BY <2>3, <2>8, <3>1, <3>3, <4>1
        <4> HIDE DEF q
        <4>3. n = 0 => sink'[i] = sink[i]
          BY <4>2
        <4>4. n # 0 => n \in 1..MaxSizeForWidth(f.width)
          BY <2>6
        <4> QED BY <2>4, <4>1, <4>2, <4>3, <4>4 DEF MayBecome
      <3> QED BY <3>2, <3>3
    <2> QED BY <1>2, <2>9, <2>10 DEF SinkIsKept
  <1> QED BY <1>5, <1>6

\* Every call, one that fails half way included, keeps what is in the sink.
LEMMA SinkStays ==
  ASSUME WriterInv, Next
  PROVE  SinkIsKept \/ UNCHANGED vars
  <1> SUFFICES ASSUME Usable
               PROVE  SinkIsKept \/ UNCHANGED vars
    BY DEF Next, CallAfterEnd, StartMaster, StartRefused, LeafWith, LeafRefused, EndReserved,
           EndUnknown, EndBuffered, EndRefused, Flush, FlushRefused, Close
  <1>1. FramesOK(open, sink) /\ IsSequence(sink) /\ Len(sink) \in Nat
    BY SequenceFacts DEF WriterInv, Usable, FramesOK
  <1>2. SinkGrows => SinkIsKept
    BY DEF SinkGrows, SinkIsKept, MayBecome
  <1>3. sink' = sink => SinkIsKept
    BY <1>1 DEF SinkIsKept, MayBecome
  <1>4. ASSUME NEW id \in ElementID, NEW size \in Sizes, NEW crcID \in ElementID \cup {"none"},
               StartMaster(id, size, crcID)
        PROVE  SinkIsKept
    <2>1. CASE size.kind = "buffered"
      BY <1>3, <1>4, <2>1 DEF StartMaster
    <2>2. CASE size.kind # "buffered"
      <3> DEFINE field == IF size.kind = "reserved" THEN SizeBytes(0, size.width)
                          ELSE UnknownSizeVINT
      <3>1. size.kind = "reserved" => size.width \in Nat
        BY WriterAssumption DEF Sizes, Buffered, UnknownSize, Reserved
      <3>2. IsSequence(EncodeID(id) \o field)
        BY <3>1, IDBytes, SizeSequence, UnknownSequence, Concatenated
      <3>3. \E frames : WriteAll(cur, EncodeID(id) \o field, frames, open)
        BY <1>4, <2>2 DEF StartMaster
      <3> QED BY <1>1, <1>2, <3>2, <3>3, WriteAllAppends
    <2> QED BY <2>1, <2>2
  <1>5. ASSUME NEW id \in ElementID, NEW n \in PayloadSizes, NEW size \in Sizes,
               LeafWith(id, n, size)
        PROVE  SinkIsKept
    <2> DEFINE width == IF size.kind = "reserved" THEN size.width ELSE SizeWidth(n)
               bytes == EncodeID(id) \o SizeBytes(n, width) \o Payload(n)
    <2>1. LeafResult(id, n, size) = "ok" /\ WriteAll(cur, bytes, open, open)
      BY <1>5 DEF LeafWith
    <2>2. IsSequence(bytes)
      BY <2>1, LeafBytes
    <2> HIDE DEF bytes
    <2> QED BY <1>1, <1>2, <2>1, <2>2, WriteAllAppends
  <1>6. ASSUME EndBuffered
        PROVE  SinkIsKept
    <2> DEFINE f == Top(open)
               bytes == EncodeID(f.id) \o EncodeSize(Len(Body(f))) \o Body(f)
    <2>1. CASE Len(Body(f)) > MaxKnownSize
      BY <1>3, <1>6, <2>1 DEF EndBuffered
    <2>2. CASE ~(Len(Body(f)) > MaxKnownSize)
      <3>1. WriteAll(f.prev, bytes, Pop(open), Pop(open)) /\ open # << >>
        BY <1>6, <2>2 DEF EndBuffered
      <3>2. IsFrame(f)
        BY <1>1, <3>1, PoppedFrames DEF FramesOK, Top
      <3>3. IsSequence(bytes)
        BY <2>2, <3>2, MasterBytes
      <3> HIDE DEF bytes, f
      <3> QED BY <1>1, <1>2, <3>1, <3>3, WriteAllAppends
    <2> QED BY <2>1, <2>2
  <1>7. EndReserved => SinkIsKept
    BY EndReservedKeeps
  <1>8. EndUnknown \/ Flush \/ Close => SinkIsKept
    BY <1>3 DEF EndUnknown, Flush, Close
  <1> QED BY <1>4, <1>5, <1>6, <1>7, <1>8
          DEF Next, CallAfterEnd, StartRefused, LeafRefused, EndRefused, FlushRefused

\* Bytes that are in the sink are neither taken back nor moved, and none is changed but
\* those of a zero size that waits to be patched.
THEOREM SinkOnlyGrows == Spec => AppendOnly
  <1>1. Init => WriterInv
    BY InitInv
  <1>2. WriterInv /\ [Next]_vars => WriterInv'
    BY NextInv
  <1>3. WriterInv /\ [Next]_vars =>
          [/\ Len(sink') >= Len(sink)
           /\ \A i \in DOMAIN sink : sink'[i] # sink[i] =>
                \E width \in 1..MaxSizeWidth : \E part \in 1..width :
                  /\ sink[i] = SizeBytes(0, width)[part]
                  /\ \E n \in 1..MaxSizeForWidth(width) :
                       sink'[i] = SizeBytes(n, width)[part]]_vars
    BY SinkStays DEF SinkIsKept, MayBecome
  <1> QED BY <1>1, <1>2, <1>3, PTL DEF Spec, AppendOnly

-----------------------------------------------------------------------------
(* Concatenation.                                                          *)

\* Sequences as long as each other, with the same elements, are the same.
LEMMA SameSequence ==
  ASSUME NEW s, NEW t, IsSequence(s), IsSequence(t), Len(s) = Len(t),
         \A i \in 1..Len(s) : s[i] = t[i]
  PROVE  s = t
  <1> DEFINE S == Range(s) \cup Range(t)
  <1>1. s \in Seq(S) /\ t \in Seq(S)
    BY SeqMonotonic DEF IsSequence
  <1> QED BY <1>1, SeqEqual

\* The sequence of nothing adds nothing.
LEMMA NothingAdded ==
  /\ IsSequence(<< >>) /\ Len(<< >>) = 0
  /\ \A s : IsSequence(s) => << >> \o s = s /\ s \o << >> = s
  <1>1. << >> \in Seq({}) /\ Len(<< >>) = 0
    BY EmptySeq
  <1>2. IsSequence(<< >>)
    BY <1>1, SequenceOf
  <1> DEFINE e == << >>
  <1>3. IsSequence(e) /\ Len(e) = 0
    BY <1>1, <1>2
  <1> HIDE DEF e
  <1>4. ASSUME NEW s, IsSequence(s) PROVE e \o s = s /\ s \o e = s
    <2>1. Len(s) \in Nat
      BY <1>4, SequenceFacts
    <2>2. IsSequence(e \o s) /\ Len(e \o s) = Len(e) + Len(s)
          /\ \A i \in 1..Len(s) : (e \o s)[Len(e) + i] = s[i]
      BY <1>3, <1>4, Concatenated
    <2>3. IsSequence(s \o e) /\ Len(s \o e) = Len(s) + Len(e)
          /\ \A i \in 1..Len(s) : (s \o e)[i] = s[i]
      BY <1>3, <1>4, Concatenated
    <2>4. \A i \in 1..Len(s) : Len(e) + i = i
      BY <1>3, <2>1
    <2> DEFINE a == e \o s
               b == s \o e
    <2>5. /\ IsSequence(a) /\ Len(a) = Len(s) /\ \A i \in 1..Len(a) : a[i] = s[i]
          /\ IsSequence(b) /\ Len(b) = Len(s) /\ \A i \in 1..Len(b) : b[i] = s[i]
      BY <1>3, <2>1, <2>2, <2>3, <2>4
    <2> HIDE DEF a, b
    <2>6. a = s /\ b = s
      BY <1>4, <2>5, SameSequence
    <2> QED BY <2>6 DEF a, b
  <1> QED BY <1>2, <1>1, <1>4 DEF e

\* Three sequences, joined either way.
LEMMA Joined ==
  ASSUME NEW a, NEW b, NEW c, IsSequence(a), IsSequence(b), IsSequence(c)
  PROVE  (a \o b) \o c = a \o (b \o c)
  <1> DEFINE ab == a \o b
             bc == b \o c
             l  == ab \o c
             r  == a \o bc
  <1>1. Len(a) \in Nat /\ Len(b) \in Nat /\ Len(c) \in Nat
    BY SequenceFacts
  <1>2. /\ IsSequence(ab) /\ Len(ab) = Len(a) + Len(b)
        /\ \A i \in 1..Len(a) : ab[i] = a[i]
        /\ \A i \in 1..Len(b) : ab[Len(a) + i] = b[i]
    BY Concatenated
  <1>3. /\ IsSequence(bc) /\ Len(bc) = Len(b) + Len(c)
        /\ \A i \in 1..Len(b) : bc[i] = b[i]
        /\ \A i \in 1..Len(c) : bc[Len(b) + i] = c[i]
    BY Concatenated
  <1> HIDE DEF ab, bc
  <1>3a. IsSequence(ab) /\ IsSequence(bc)
    BY <1>2, <1>3
  <1>4. /\ IsSequence(l) /\ Len(l) = Len(ab) + Len(c)
        /\ \A i \in 1..Len(ab) : l[i] = ab[i]
        /\ \A i \in 1..Len(c) : l[Len(ab) + i] = c[i]
    BY <1>3a, Concatenated
  <1>5. /\ IsSequence(r) /\ Len(r) = Len(a) + Len(bc)
        /\ \A i \in 1..Len(a) : r[i] = a[i]
        /\ \A i \in 1..Len(bc) : r[Len(a) + i] = bc[i]
    BY <1>3a, Concatenated
  <1> HIDE DEF l, r
  <1>6. ASSUME NEW i \in 1..Len(l) PROVE l[i] = r[i]
    <2>1. CASE i \in 1..Len(a)
      BY <1>1, <1>2, <1>4, <1>5, <2>1
    <2>2. CASE i \in (Len(a) + 1)..(Len(a) + Len(b))
      <3> DEFINE j == i - Len(a)
      <3>1. j \in 1..Len(b) /\ i = Len(a) + j /\ i \in 1..Len(ab) /\ j \in 1..Len(bc)
        BY <1>1, <1>2, <1>3, <2>2
      <3> HIDE DEF j
      <3> QED BY <1>2, <1>3, <1>4, <1>5, <3>1
    <2>3. CASE i \in (Len(a) + Len(b) + 1)..(Len(a) + Len(b) + Len(c))
      <3> DEFINE j == i - (Len(a) + Len(b))
      <3>1. /\ j \in 1..Len(c) /\ i = Len(ab) + j
            /\ i = Len(a) + (Len(b) + j) /\ Len(b) + j \in 1..Len(bc)
        BY <1>1, <1>2, <1>3, <2>3
      <3> HIDE DEF j
      <3>2. l[i] = c[j]
        BY <1>4, <3>1
      <3>3. r[i] = bc[Len(b) + j]
        BY <1>5, <3>1
      <3> QED BY <1>3, <3>1, <3>2, <3>3
    <2> QED BY <1>1, <1>2, <1>4, <2>1, <2>2, <2>3
  <1>7. Len(l) = Len(r)
    BY <1>1, <1>2, <1>3, <1>4, <1>5
  <1>8. l = r
    BY <1>4, <1>5, <1>6, <1>7, SameSequence
  <1> QED BY <1>8 DEF l, r, ab, bc

\* f is x at the numbers of Stop, and elsewhere what it was before with y behind it.
Joining(f, n, Stop, x, y) ==
  f = [i \in 1..n |-> IF i \in Stop THEN x[i] ELSE f[i - 1] \o y[i]]

\* There is such a function.
LEMMA JoiningFunction ==
  ASSUME NEW n \in Nat, NEW Stop, 1 \in Stop, NEW x, NEW y
  PROVE  \E f : Joining(f, n, Stop, x, y)
  <1> USE DEF Joining
  <1> DEFINE Upto(m) == \E f : Joining(f, m, Stop, x, y)
             T == {m \in 0..n : Upto(m)}
  <1>1. 0 \in T
    <2> DEFINE f == [i \in 1..0 |-> i]
    <2>1. f = [i \in 1..0 |-> IF i \in Stop THEN x[i] ELSE f[i - 1] \o y[i]]
      OBVIOUS
    <2> HIDE DEF f
    <2>2. Upto(0)
      BY <2>1
    <2> HIDE DEF Upto
    <2> QED BY <2>2
  <1>2. ASSUME NEW m \in 1..n, m - 1 \in T PROVE m \in T
    <2>1. PICK f : f = [i \in 1..(m - 1) |-> IF i \in Stop THEN x[i] ELSE f[i - 1] \o y[i]]
      BY <1>2
    <2> DEFINE h == [i \in 1..m |-> IF i < m THEN f[i]
                                    ELSE IF i \in Stop THEN x[i] ELSE f[i - 1] \o y[i]]
               k == [i \in 1..m |-> IF i \in Stop THEN x[i] ELSE h[i - 1] \o y[i]]
    <2>2. \A i \in 1..(m - 1) : h[i] = f[i]
      OBVIOUS
    <2>3. ASSUME NEW i \in 1..m PROVE h[i] = IF i \in Stop THEN x[i] ELSE h[i - 1] \o y[i]
      <3>1. i \notin Stop => i - 1 \in 1..(m - 1)
        OBVIOUS
      <3>2. i \notin Stop => h[i - 1] = f[i - 1]
        BY <2>2, <3>1
      <3>3. CASE i = m
        <4>1. h[i] = IF i \in Stop THEN x[i] ELSE f[i - 1] \o y[i]
          BY <3>3
        <4> HIDE DEF h
        <4> QED BY <3>2, <4>1
      <3>4. CASE i # m
        <4>1. i \in 1..(m - 1)
          BY <3>4
        <4>2. h[i] = f[i] /\ f[i] = IF i \in Stop THEN x[i] ELSE f[i - 1] \o y[i]
          BY <2>1, <2>2, <4>1
        <4> HIDE DEF h
        <4> QED BY <3>2, <4>2
      <3> QED BY <3>3, <3>4
    <2>4. h = [i \in 1..m |-> h[i]]
      OBVIOUS
    <2> HIDE DEF h
    <2>5. h = k
      BY <2>3, <2>4
    <2>6. Upto(m)
      BY <2>5
    <2> HIDE DEF Upto
    <2> QED BY <2>6
  <1> HIDE DEF T
  <1>3. 0..n \subseteq T
    BY <1>1, <1>2, BoundedInduction
  <1>4. n \in T
    BY <1>3
  <1> QED BY <1>4 DEF T

\* Where two of them begin alike they are alike.
LEMMA JoiningAlike ==
  ASSUME NEW n \in Nat, NEW m \in 0..n, NEW Stop, 1 \in Stop, NEW x, NEW y, NEW f,
         Joining(f, n, Stop, x, y),
         NEW k \in Nat, m <= k, NEW Halt, NEW u, NEW v, NEW g, Joining(g, k, Halt, u, v),
         \A i \in 1..m : i \in Stop <=> i \in Halt,
         \A i \in 1..m : (i \in Stop => u[i] = x[i]) /\ (i \notin Stop => v[i] = y[i])
  PROVE  \A i \in 1..m : g[i] = f[i]
  <1> DEFINE T == {i \in 0..m : i = 0 \/ g[i] = f[i]}
  <1>1. 0 \in T
    OBVIOUS
  <1>2. ASSUME NEW i \in 1..m, i - 1 \in T PROVE i \in T
    <2>0. i \in 1..n /\ i \in 1..k /\ i \in 0..m
      OBVIOUS
    <2>1. f[i] = IF i \in Stop THEN x[i] ELSE f[i - 1] \o y[i]
      BY <2>0 DEF Joining
    <2>2. g[i] = IF i \in Halt THEN u[i] ELSE g[i - 1] \o v[i]
      BY <2>0 DEF Joining
    <2>3. i \notin Stop => i - 1 # 0 /\ g[i - 1] = f[i - 1]
      <3>1. i = 1 => i \in Stop
        OBVIOUS
      <3> QED BY <1>2, <3>1
    <2>4. g[i] = f[i]
      BY <2>1, <2>2, <2>3
    <2> QED BY <2>0, <2>4
  <1> HIDE DEF T
  <1>3. 0..m \subseteq T
    BY <1>1, <1>2, BoundedInduction
  <1> SUFFICES ASSUME NEW i \in 1..m PROVE g[i] = f[i]
    OBVIOUS
  <1>4. i \in T /\ i # 0
    BY <1>3
  <1> QED BY <1>4 DEF T

\* Sequences one after the other are joined from the first on.
LEMMA FlattenJoins ==
  ASSUME NEW ss, Len(ss) \in Nat \ {0}
  PROVE  \E f : Joining(f, Len(ss), {1}, ss, ss) /\ FlattenSeq(ss) = f[Len(ss)]
  <1> DEFINE f == CHOOSE f : f = [i \in 1..Len(ss) |-> IF i = 1 THEN ss[i] ELSE f[i - 1] \o ss[i]]
  <1>1. PICK g : Joining(g, Len(ss), {1}, ss, ss)
    BY JoiningFunction
  <1>2. g = [i \in 1..Len(ss) |-> IF i = 1 THEN ss[i] ELSE g[i - 1] \o ss[i]]
    BY <1>1 DEF Joining
  <1>3. f = [i \in 1..Len(ss) |-> IF i = 1 THEN ss[i] ELSE f[i - 1] \o ss[i]]
    BY <1>2
  <1>4. FlattenSeq(ss) = f[Len(ss)]
    BY DEF FlattenSeq
  <1> HIDE DEF f
  <1>5. Joining(f, Len(ss), {1}, ss, ss)
    BY <1>3 DEF Joining
  <1> QED BY <1>4, <1>5

\* What is appended to them is appended to the whole.
LEMMA FlattenAppended ==
  ASSUME NEW ss, IsSequence(ss), NEW x, IsSequence(x)
  PROVE  FlattenSeq(Append(ss, x)) = FlattenSeq(ss) \o x
  <1> DEFINE n == Len(ss)
             tt == Append(ss, x)
  <1>1. /\ n \in Nat /\ IsSequence(tt) /\ Len(tt) = n + 1
        /\ \A i \in 1..n : tt[i] = ss[i]
        /\ tt[n + 1] = x
    BY SequenceFacts, Appended
  <1> HIDE DEF tt
  <1>2. PICK g : Joining(g, n + 1, {1}, tt, tt) /\ FlattenSeq(tt) = g[n + 1]
    BY <1>1, FlattenJoins
  <1>3. g[n + 1] = IF n + 1 \in {1} THEN tt[n + 1] ELSE g[n] \o tt[n + 1]
    <2>1. n + 1 \in 1..(n + 1) /\ (n + 1) - 1 = n
      BY <1>1
    <2> HIDE DEF n
    <2> QED BY <1>2, <2>1 DEF Joining
  <1>4. CASE n = 0
    <2>1. FlattenSeq(ss) = ss /\ ss = << >>
      BY <1>4, EmptySeq DEF FlattenSeq, IsSequence
    <2> QED BY <1>1, <1>2, <1>3, <1>4, <2>1, NothingAdded DEF tt
  <1>5. CASE n # 0
    <2>1. PICK f : Joining(f, n, {1}, ss, ss) /\ FlattenSeq(ss) = f[n]
      BY <1>1, <1>5, FlattenJoins
    <2> DEFINE k == n + 1
               Stop == {1}
    <2> HIDE DEF n
    <2>2. n \in Nat /\ n \in 0..n /\ n \in 1..n /\ k \in Nat /\ n <= k /\ 1 \in Stop
      BY <1>1, <1>5
    <2>3. /\ \A i \in 1..n : i \in Stop <=> i \in Stop
          /\ \A i \in 1..n : (i \in Stop => tt[i] = ss[i]) /\ (i \notin Stop => tt[i] = ss[i])
      BY <1>1
    <2>3a. Joining(g, k, Stop, tt, tt) /\ Joining(f, n, Stop, ss, ss)
      BY <1>2, <2>1
    <2> HIDE DEF k, Stop
    <2>4. \A i \in 1..n : g[i] = f[i]
      BY <2>2, <2>3, <2>3a, JoiningAlike
    <2>5. n + 1 # 1 /\ g[n] = f[n]
      BY <1>1, <1>5, <2>2, <2>4
    <2> QED BY <1>1, <1>2, <1>3, <2>1, <2>5 DEF tt
  <1> QED BY <1>4, <1>5

\* Of sequences the whole is one.
LEMMA FlattenSequence ==
  ASSUME NEW ss, IsSequence(ss), \A i \in 1..Len(ss) : IsSequence(ss[i])
  PROVE  IsSequence(FlattenSeq(ss))
  <1>1. Len(ss) \in Nat
    BY SequenceFacts
  <1>2. CASE Len(ss) = 0
    BY <1>2 DEF FlattenSeq
  <1>3. CASE Len(ss) # 0
    <2>1. PICK f : Joining(f, Len(ss), {1}, ss, ss) /\ FlattenSeq(ss) = f[Len(ss)]
      BY <1>1, <1>3, FlattenJoins
    <2> DEFINE T == {i \in 0..Len(ss) : i = 0 \/ IsSequence(f[i])}
    <2>2. 0 \in T
      BY <1>1
    <2>3. ASSUME NEW i \in 1..Len(ss), i - 1 \in T PROVE i \in T
      <3>1. f[i] = IF i \in {1} THEN ss[i] ELSE f[i - 1] \o ss[i]
        BY <2>1 DEF Joining
      <3>2. i \notin {1} => IsSequence(f[i - 1])
        BY <2>3
      <3>3. IsSequence(f[i])
        BY <3>1, <3>2, Concatenated
      <3> QED BY <3>3
    <2> HIDE DEF T
    <2>4. 0..Len(ss) \subseteq T
      BY <1>1, <2>2, <2>3, BoundedInduction
    <2>5. Len(ss) \in T
      BY <1>1, <2>4
    <2> QED BY <1>3, <2>1, <2>5 DEF T
  <1> QED BY <1>2, <1>3

-----------------------------------------------------------------------------
(* The bytes of the elements said.                                         *)

\* The bytes of elements whose children are encoded by x.
EncodedOn(x) ==
  [e \in ElementOf(DOMAIN x) |->
    WithHeader(e, Payload(e.payload)
                    \o WithChecksum(e.crcID,
                         FlattenSeq([i \in DOMAIN e.children |-> x[e.children[i]]])))]

Encodes(f, n) == f = [i \in 0..n |-> IF i = 0 THEN << >> ELSE EncodedOn(f[i - 1])]

\* There are encodings of any height.
LEMMA EncodingFunction == ASSUME NEW n \in Nat PROVE \E f : Encodes(f, n)
  <1> USE DEF Encodes
  <1> DEFINE Upto(m) == \E f : Encodes(f, m)
             T == {m \in 0..n : Upto(m)}
  <1>1. 0 \in T
    <2> DEFINE f == [i \in 0..0 |-> << >>]
    <2>1. f = [i \in 0..0 |-> IF i = 0 THEN << >> ELSE EncodedOn(f[i - 1])]
      OBVIOUS
    <2> HIDE DEF f
    <2>2. Upto(0)
      BY <2>1
    <2> HIDE DEF Upto
    <2> QED BY <2>2
  <1>2. ASSUME NEW m \in 1..n, m - 1 \in T PROVE m \in T
    <2>1. PICK f : f = [i \in 0..(m - 1) |-> IF i = 0 THEN << >> ELSE EncodedOn(f[i - 1])]
      BY <1>2
    <2> DEFINE h == [i \in 0..m |-> IF i < m THEN f[i] ELSE EncodedOn(f[i - 1])]
               k == [i \in 0..m |-> IF i = 0 THEN << >> ELSE EncodedOn(h[i - 1])]
    <2>2. \A i \in 0..(m - 1) : h[i] = f[i]
      OBVIOUS
    <2>3. ASSUME NEW i \in 0..m PROVE h[i] = IF i = 0 THEN << >> ELSE EncodedOn(h[i - 1])
      <3>1. i # 0 => i - 1 \in 0..(m - 1)
        OBVIOUS
      <3>2. i # 0 => h[i - 1] = f[i - 1]
        BY <2>2, <3>1
      <3>3. CASE i = m
        <4>1. h[i] = EncodedOn(f[i - 1]) /\ i # 0
          BY <3>3
        <4> HIDE DEF h
        <4> QED BY <3>2, <4>1
      <3>4. CASE i # m
        <4>1. i \in 0..(m - 1)
          BY <3>4
        <4>2. h[i] = f[i] /\ f[i] = IF i = 0 THEN << >> ELSE EncodedOn(f[i - 1])
          BY <2>1, <2>2, <4>1
        <4> HIDE DEF h
        <4> QED BY <3>2, <4>2
      <3> QED BY <3>3, <3>4
    <2>4. h = [i \in 0..m |-> h[i]]
      OBVIOUS
    <2> HIDE DEF h
    <2>5. h = k
      BY <2>3, <2>4
    <2>6. Upto(m)
      BY <2>5
    <2> HIDE DEF Upto
    <2> QED BY <2>6
  <1> HIDE DEF T
  <1>3. 0..n \subseteq T
    BY <1>1, <1>2, BoundedInduction
  <1>4. n \in T
    BY <1>3
  <1> QED BY <1>4 DEF T

\* An element is encoded as its children are.
LEMMA EncodedIs == \A n \in 1..(MaxDepth + 1) : Encoded[n] = EncodedOn(Encoded[n - 1])
  <1>1. MaxDepth + 1 \in Nat
    BY WriterAssumption
  <1>2. \E f : Encodes(f, MaxDepth + 1)
    BY <1>1, EncodingFunction
  <1>3. Encodes(Encoded, MaxDepth + 1)
    BY <1>2 DEF Encoded, Encodes, EncodedOn
  <1> TAKE n \in 1..(MaxDepth + 1)
  <1>4. n \in 0..(MaxDepth + 1) /\ n # 0
    BY <1>1
  <1> QED BY <1>3, <1>4 DEF Encodes

\* Elements whose bytes are sequences.
Encodable(n, es) ==
  es \in Seq(DOMAIN Encoded[n]) /\ \A i \in 1..Len(es) : IsSequence(Encoded[n][es[i]])

\* Of no elements there are no bytes, and an element's bytes are behind those before it.
LEMMA EncodeAllAppended ==
  ASSUME NEW n, NEW es, Encodable(n, es), NEW e \in DOMAIN Encoded[n], IsSequence(Encoded[n][e])
  PROVE  /\ Encodable(n, Append(es, e))
         /\ EncodeAll(n, Append(es, e)) = EncodeAll(n, es) \o Encoded[n][e]
  <1> DEFINE all == Append(es, e)
             a == [i \in DOMAIN es |-> Encoded[n][es[i]]]
             b == [i \in DOMAIN all |-> Encoded[n][all[i]]]
             x == Encoded[n][e]
             c == Append(a, x)
  <1>1. es \in Seq(DOMAIN Encoded[n]) /\ Len(es) \in Nat /\ DOMAIN es = 1..Len(es)
    BY LenProperties DEF Encodable
  <1>2. /\ all \in Seq(DOMAIN Encoded[n]) /\ Len(all) = Len(es) + 1
        /\ \A i \in 1..Len(es) : all[i] = es[i]
        /\ all[Len(es) + 1] = e
    BY <1>1, AppendProperties
  <1>3. DOMAIN all = 1..(Len(es) + 1)
    BY <1>2, LenProperties
  <1>4. Encodable(n, all)
    BY <1>1, <1>2 DEF Encodable
  <1>5. IsSequence(a) /\ Len(a) = Len(es)
    <2>1. a = [i \in 1..Len(es) |-> a[i]]
      BY <1>1
    <2> HIDE DEF a
    <2> QED BY <1>1, <2>1, FunctionIsSequence
  <1>6. IsSequence(b) /\ Len(b) = Len(es) + 1
    <2>1. b = [i \in 1..(Len(es) + 1) |-> b[i]] /\ Len(es) + 1 \in Nat
      BY <1>1, <1>3
    <2> HIDE DEF b
    <2> QED BY <2>1, FunctionIsSequence
  <1>7. /\ \A i \in 1..Len(es) : a[i] = Encoded[n][es[i]]
        /\ \A i \in 1..(Len(es) + 1) : b[i] = Encoded[n][all[i]]
    BY <1>1, <1>3
  <1> HIDE DEF all, a, b, x
  <1>8. /\ IsSequence(c) /\ Len(c) = Len(es) + 1
        /\ \A i \in 1..Len(es) : c[i] = a[i]
        /\ c[Len(es) + 1] = x
    BY <1>5, Appended
  <1> HIDE DEF c
  <1>9. ASSUME NEW i \in 1..Len(b) PROVE b[i] = c[i]
    <2>1. CASE i = Len(es) + 1
      BY <1>2, <1>6, <1>7, <1>8, <2>1 DEF x
    <2>2. CASE i # Len(es) + 1
      <3>1. i \in 1..Len(es) /\ i \in 1..(Len(es) + 1)
        BY <1>1, <1>6, <2>2
      <3> QED BY <1>2, <1>7, <1>8, <3>1
    <2> QED BY <2>1, <2>2
  <1>10. b = c
    BY <1>6, <1>8, <1>9, SameSequence
  <1>11. FlattenSeq(Append(a, x)) = FlattenSeq(a) \o x
    BY <1>5, FlattenAppended DEF x
  <1> QED BY <1>4, <1>10, <1>11 DEF EncodeAll, all, a, b, c, x

\* The bytes of such elements are a sequence.
LEMMA EncodeAllSequence ==
  ASSUME NEW n, NEW es, Encodable(n, es)
  PROVE  IsSequence(EncodeAll(n, es))
  <1> DEFINE a == [i \in DOMAIN es |-> Encoded[n][es[i]]]
  <1>1. Len(es) \in Nat /\ DOMAIN es = 1..Len(es)
    BY LenProperties DEF Encodable
  <1>2. a = [i \in 1..Len(es) |-> a[i]] /\ \A i \in 1..Len(es) : a[i] = Encoded[n][es[i]]
    BY <1>1
  <1>3. EncodeAll(n, es) = FlattenSeq(a)
    BY DEF EncodeAll
  <1> HIDE DEF a
  <1>4. IsSequence(a) /\ Len(a) = Len(es)
    BY <1>1, <1>2, FunctionIsSequence
  <1>5. \A i \in 1..Len(a) : IsSequence(a[i])
    BY <1>2, <1>4 DEF Encodable
  <1> QED BY <1>3, <1>4, <1>5, FlattenSequence

\* No elements have no bytes.
LEMMA NoElements ==
  ASSUME NEW n
  PROVE  Encodable(n, << >>) /\ EncodeAll(n, << >>) = << >>
  <1>1. << >> \in Seq(DOMAIN Encoded[n]) /\ Len(<< >>) = 0 /\ DOMAIN << >> = {}
    BY EmptySeq
  <1>2. Encodable(n, << >>)
    BY <1>1 DEF Encodable
  <1> DEFINE a == [i \in DOMAIN << >> |-> Encoded[n][<< >>[i]]]
  <1>3. a = [i \in 1..0 |-> a[i]]
    BY <1>1
  <1>4. EncodeAll(n, << >>) = FlattenSeq(a)
    BY DEF EncodeAll
  <1> HIDE DEF a
  <1>5. IsSequence(a) /\ Len(a) = 0
    BY <1>3, FunctionIsSequence
  <1>6. a = << >>
    BY <1>5, NothingAdded, SameSequence
  <1>7. FlattenSeq(a) = a
    BY <1>5 DEF FlattenSeq
  <1> QED BY <1>2, <1>4, <1>6, <1>7

-----------------------------------------------------------------------------
(* What the levels said have emitted.                                      *)

\* The header a master that is not kept begins with.
Opening(l) == EncodeID(l.id) \o SizeField(l.size, 0)

\* A level said: a master, or the document, with the elements complete in it.
IsLevel(l, n) ==
  /\ l = [id |-> l.id, size |-> l.size, crcID |-> l.crcID, payload |-> l.payload,
          children |-> l.children]
  /\ Encodable(n, l.children)

\* It is the master that the frame was opened for.
IsOpened(l, f) ==
  /\ l.id = f.id /\ l.crcID = f.crcID /\ l.payload = 0
  /\ l.size \in Sizes /\ l.size.kind = f.kind /\ l.size.width = f.width
  /\ f.crcID # "none" => f.kind = "buffered"

\* The levels are the document and the masters whose frames are open.
LevelsOK(L, F) ==
  /\ IsSequence(L) /\ IsSequence(F) /\ Len(L) = Len(F) + 1 /\ Len(F) <= MaxDepth
  /\ \A k \in 1..Len(L) : IsLevel(L[k], MaxDepth + 2 - k)
  /\ \A k \in 1..Len(F) : IsFrame(F[k]) /\ IsOpened(L[k + 1], F[k])

Starts(L) == {k \in 1..Len(L) : k = 1 \/ L[k].size.kind = "buffered"}

Parts(L) == [k \in 1..Len(L) |-> Completed(L, k)]

OpenedParts(L) == [k \in 1..Len(L) |-> Opening(L[k]) \o Completed(L, k)]

\* What is emitted is joined level by level, from the last one kept on.
LEMMA EmittedJoins ==
  ASSUME NEW L, IsSequence(L), Len(L) # 0
  PROVE  Joining(Emitted(L), Len(L), Starts(L), Parts(L), OpenedParts(L))
  <1>1. Len(L) \in Nat /\ DOMAIN L = 1..Len(L)
    BY SequenceFacts
  <1>2. 1 \in Starts(L)
    BY <1>1 DEF Starts
  <1>3. PICK g : Joining(g, Len(L), Starts(L), Parts(L), OpenedParts(L))
    BY <1>1, <1>2, JoiningFunction
  <1> DEFINE ByLevel(f) == [k \in DOMAIN L |->
               IF k = 1 \/ L[k].size.kind = "buffered" THEN Completed(L, k)
               ELSE f[k - 1] \o (EncodeID(L[k].id) \o SizeField(L[k].size, 0) \o Completed(L, k))]
             By(f) == [k \in 1..Len(L) |->
               IF k \in Starts(L) THEN Parts(L)[k] ELSE f[k - 1] \o OpenedParts(L)[k]]
             at == CHOOSE f : f = ByLevel(f)
  <1>4. ASSUME NEW f PROVE ByLevel(f) = By(f)
    BY <1>1 DEF Starts, Parts, OpenedParts, Opening
  <1>5. g = By(g)
    BY <1>3 DEF Joining
  <1>6. Emitted(L) = at
    BY DEF Emitted
  <1> HIDE DEF ByLevel, By
  <1>7. g = ByLevel(g)
    BY <1>4, <1>5
  <1>8. at = ByLevel(at)
    BY <1>7
  <1> HIDE DEF at
  <1>9. at = By(at)
    BY <1>4, <1>8
  <1> QED BY <1>6, <1>9 DEF By, Joining

\* Level by level.
LEMMA EmittedIs ==
  ASSUME NEW L, IsSequence(L), NEW k \in 1..Len(L)
  PROVE  Emitted(L)[k] = IF k = 1 \/ L[k].size.kind = "buffered" THEN Completed(L, k)
                         ELSE Emitted(L)[k - 1] \o (Opening(L[k]) \o Completed(L, k))
  <1>1. Len(L) \in Nat /\ Len(L) # 0
    BY SequenceFacts
  <1>2. Joining(Emitted(L), Len(L), Starts(L), Parts(L), OpenedParts(L))
    BY <1>1, EmittedJoins
  <1>3. Emitted(L)[k] = IF k \in Starts(L) THEN Parts(L)[k] ELSE Emitted(L)[k - 1] \o OpenedParts(L)[k]
    BY <1>2 DEF Joining
  <1>4. Parts(L)[k] = Completed(L, k) /\ OpenedParts(L)[k] = Opening(L[k]) \o Completed(L, k)
    BY DEF Parts, OpenedParts
  <1>5. k \in Starts(L) <=> (k = 1 \/ L[k].size.kind = "buffered")
    BY DEF Starts
  <1> QED BY <1>3, <1>4, <1>5

\* Levels that begin alike have emitted alike.
LEMMA EmittedAlike ==
  ASSUME NEW L, IsSequence(L), NEW M, IsSequence(M), NEW m \in Nat, m <= Len(L), m <= Len(M),
         Len(L) # 0, Len(M) # 0, \A i \in 1..m : M[i] = L[i]
  PROVE  \A i \in 1..m : Emitted(M)[i] = Emitted(L)[i]
  <1>1. Len(L) \in Nat /\ Len(M) \in Nat /\ m \in 0..Len(L)
    BY SequenceFacts
  <1>2. /\ Joining(Emitted(L), Len(L), Starts(L), Parts(L), OpenedParts(L))
        /\ Joining(Emitted(M), Len(M), Starts(M), Parts(M), OpenedParts(M))
    BY EmittedJoins
  <1>3. 1 \in Starts(L)
    BY <1>1 DEF Starts
  <1>4. \A i \in 1..m : i \in 1..Len(L) /\ i \in 1..Len(M)
    BY <1>1
  <1>5. \A i \in 1..m : i \in Starts(L) <=> i \in Starts(M)
    BY <1>4 DEF Starts
  <1>6. \A i \in 1..m : Parts(M)[i] = Parts(L)[i] /\ OpenedParts(M)[i] = OpenedParts(L)[i]
    BY <1>4 DEF Parts, OpenedParts, Completed
  <1>7. \A i \in 1..m : /\ i \in Starts(L) => Parts(M)[i] = Parts(L)[i]
                        /\ i \notin Starts(L) => OpenedParts(M)[i] = OpenedParts(L)[i]
    BY <1>6
  <1> DEFINE f == Emitted(L)
             g == Emitted(M)
             n == Len(L)
             k == Len(M)
             s == Starts(L)
             t == Starts(M)
             x == Parts(L)
             y == OpenedParts(L)
             u == Parts(M)
             v == OpenedParts(M)
  <1>8. /\ n \in Nat /\ m \in 0..n /\ 1 \in s /\ Joining(f, n, s, x, y)
        /\ k \in Nat /\ m <= k /\ Joining(g, k, t, u, v)
    BY <1>1, <1>2, <1>3
  <1>9. /\ \A i \in 1..m : i \in s <=> i \in t
        /\ \A i \in 1..m : (i \in s => u[i] = x[i]) /\ (i \notin s => v[i] = y[i])
    BY <1>5, <1>7
  <1> HIDE DEF f, g, n, k, s, t, x, y, u, v
  <1>10. \A i \in 1..m : g[i] = f[i]
    BY ONLY <1>8, <1>9, m \in Nat, JoiningAlike
  <1> QED BY <1>10 DEF f, g

\* The header of a master that is not kept is a sequence of bytes.
LEMMA OpeningSequence ==
  ASSUME NEW l, l.id \in ElementID, l.size \in Sizes, l.size.kind # "buffered"
  PROVE  IsSequence(Opening(l))
  <1>1. CASE l.size.kind = "unknown"
    BY <1>1, IDBytes, UnknownSequence, Concatenated DEF Opening, SizeField
  <1>2. CASE l.size.kind = "reserved"
    <2>1. l.size.width \in Nat
      BY <1>2, WriterAssumption DEF Sizes, Buffered, UnknownSize, Reserved
    <2> QED BY <1>2, <2>1, IDBytes, SizeSequence, Concatenated DEF Opening, SizeField
  <1>3. l.size.kind \in {"unknown", "reserved"}
    BY DEF Sizes, Buffered, UnknownSize, Reserved
  <1> QED BY <1>1, <1>2, <1>3

\* What is complete in a level is a sequence of bytes.
LEMMA CompletedSequence ==
  ASSUME NEW L, NEW k, IsLevel(L[k], MaxDepth + 2 - k)
  PROVE  IsSequence(Completed(L, k))
  BY EncodeAllSequence DEF IsLevel, Completed

\* So is what is emitted.
LEMMA EmittedSequence ==
  ASSUME NEW L, NEW F, LevelsOK(L, F)
  PROVE  \A k \in 1..Len(L) : IsSequence(Emitted(L)[k])
  <1>1. IsSequence(L) /\ Len(L) \in Nat /\ Len(F) \in Nat /\ Len(L) = Len(F) + 1
    BY SequenceFacts DEF LevelsOK
  <1>2. \A k \in 1..Len(L) : IsSequence(Completed(L, k))
    BY CompletedSequence DEF LevelsOK
  <1> DEFINE T == {k \in 0..Len(L) : k = 0 \/ IsSequence(Emitted(L)[k])}
  <1>3. 0 \in T
    BY <1>1
  <1>4. ASSUME NEW k \in 1..Len(L), k - 1 \in T PROVE k \in T
    <2> SUFFICES IsSequence(Emitted(L)[k])
      OBVIOUS
    <2>1. CASE k = 1 \/ L[k].size.kind = "buffered"
      <3>1. Emitted(L)[k] = Completed(L, k)
        BY <1>1, <2>1, EmittedIs
      <3> QED BY <1>2, <3>1
    <2>2. CASE ~(k = 1 \/ L[k].size.kind = "buffered")
      <3>1. Emitted(L)[k] = Emitted(L)[k - 1] \o (Opening(L[k]) \o Completed(L, k))
        BY <1>1, <2>2, EmittedIs
      <3>2. k - 1 \in 1..Len(F) /\ (k - 1) + 1 = k /\ k - 1 # 0
        BY <1>1, <2>2
      <3>3. L[k].id \in ElementID /\ L[k].size \in Sizes
        BY <3>2 DEF LevelsOK, IsOpened, IsFrame
      <3>4. IsSequence(Opening(L[k]))
        BY <2>2, <3>3, OpeningSequence
      <3>5. IsSequence(Opening(L[k]) \o Completed(L, k))
        BY <1>2, <3>4, Concatenated
      <3>6. IsSequence(Emitted(L)[k - 1])
        BY <1>4, <3>2
      <3> QED BY <3>1, <3>5, <3>6, Concatenated
    <2> QED BY <2>1, <2>2
  <1> HIDE DEF T
  <1>5. 0..Len(L) \subseteq T
    BY <1>1, <1>3, <1>4, BoundedInduction
  <1> TAKE k \in 1..Len(L)
  <1>6. k \in T /\ k # 0
    BY <1>1, <1>5
  <1> QED BY <1>6 DEF T

\* A level in which one more element is complete.
WithChild(l, e) ==
  [id |-> l.id, size |-> l.size, crcID |-> l.crcID, payload |-> l.payload,
   children |-> Append(l.children, e)]

\* Completing an element touches the innermost level only.
LEMMA CompleteFacts ==
  ASSUME NEW L, IsSequence(L), Len(L) # 0, NEW n, IsLevel(L[Len(L)], n), NEW e
  PROVE  /\ IsSequence(Complete(L, e)) /\ Len(Complete(L, e)) = Len(L)
         /\ Complete(L, e)[Len(L)] = WithChild(L[Len(L)], e)
         /\ \A i \in 1..(Len(L) - 1) : Complete(L, e)[i] = L[i]
  <1> DEFINE m == Len(L)
             l == L[m]
             M == [L EXCEPT ![m] = WithChild(l, e)]
  <1>1. m \in Nat /\ DOMAIN L = 1..m /\ m \in DOMAIN L
    BY SequenceFacts
  <1>2. [l EXCEPT !.children = Append(@, e)] = WithChild(l, e)
    <2>1. l = [id |-> l.id, size |-> l.size, crcID |-> l.crcID, payload |-> l.payload,
               children |-> l.children]
      BY DEF IsLevel
    <2> DEFINE a == l.id
               b == l.size
               c == l.crcID
               d == l.payload
               k == l.children
               r == [id |-> a, size |-> b, crcID |-> c, payload |-> d, children |-> k]
    <2>2. l = r
      BY <2>1
    <2> HIDE DEF a, b, c, d, k, l
    <2>3. [r EXCEPT !.children = Append(@, e)]
            = [id |-> a, size |-> b, crcID |-> c, payload |-> d, children |-> Append(k, e)]
      OBVIOUS
    <2> QED BY <2>2, <2>3 DEF WithChild
  <1>3. Complete(L, e) = M
    BY <1>2 DEF Complete
  <1> HIDE DEF l
  <1>4. IsSequence(M) /\ Len(M) = m /\ M[m] = WithChild(l, e) /\ \A i \in 1..(m - 1) : M[i] = L[i]
    <2> DEFINE w == WithChild(l, e)
    <2> HIDE DEF w
    <2>1. IsSequence([L EXCEPT ![m] = w]) /\ Len([L EXCEPT ![m] = w]) = Len(L)
      BY <1>1, ExceptOfSequence
    <2> QED BY <1>1, <2>1 DEF w
  <1> QED BY <1>3, <1>4 DEF l

\* The innermost of the levels M has emitted b more than that of L, and the others are L's.
EmitsMore(M, L, b) ==
  /\ Len(M) = Len(L) /\ \A i \in 1..(Len(L) - 1) : M[i] = L[i]
  /\ Emitted(M)[Len(L)] = Emitted(L)[Len(L)] \o b

\* The bytes of a completed element are behind what its level has emitted.
LEMMA CompleteEmits ==
  ASSUME NEW L, NEW F, LevelsOK(L, F), NEW h, h = MaxDepth + 2 - Len(L),
         NEW e, e \in DOMAIN Encoded[h], IsSequence(Encoded[h][e]),
         NEW M, M = Complete(L, e)
  PROVE  LevelsOK(M, F) /\ EmitsMore(M, L, Encoded[h][e])
  <1> DEFINE n == Len(L)
             b == Encoded[h][e]
  <1>1. /\ IsSequence(L) /\ IsSequence(F) /\ n \in Nat \ {0} /\ n = Len(F) + 1 /\ Len(F) \in Nat
        /\ IsLevel(L[n], h)
    BY SequenceFacts DEF LevelsOK
  <1>2. /\ IsSequence(M) /\ Len(M) = n
        /\ M[n] = WithChild(L[n], e)
        /\ \A i \in 1..(n - 1) : M[i] = L[i]
    BY <1>1, CompleteFacts
  <1>3. /\ Encodable(h, Append(L[n].children, e))
        /\ EncodeAll(h, Append(L[n].children, e)) = EncodeAll(h, L[n].children) \o b
    BY <1>1, EncodeAllAppended DEF IsLevel
  <1>4. /\ M[n].id = L[n].id /\ M[n].size = L[n].size /\ M[n].crcID = L[n].crcID
        /\ M[n].payload = L[n].payload /\ M[n].children = Append(L[n].children, e)
        /\ IsLevel(M[n], h)
    BY <1>2, <1>3 DEF WithChild, IsLevel
  <1>5. LevelsOK(M, F)
    <2>1. ASSUME NEW k \in 1..n PROVE IsLevel(M[k], MaxDepth + 2 - k)
      <3>1. CASE k = n
        BY <1>4, <3>1
      <3>2. CASE k # n
        <4>1. k \in 1..(n - 1)
          BY <1>1, <3>2
        <4> QED BY <1>2, <4>1 DEF LevelsOK
      <3> QED BY <3>1, <3>2
    <2>2. ASSUME NEW k \in 1..Len(F) PROVE IsFrame(F[k]) /\ IsOpened(M[k + 1], F[k])
      <3>1. IsFrame(F[k]) /\ IsOpened(L[k + 1], F[k])
        BY DEF LevelsOK
      <3>2. k + 1 \in 1..n
        BY <1>1
      <3>3. M[k + 1].id = L[k + 1].id /\ M[k + 1].size = L[k + 1].size
            /\ M[k + 1].crcID = L[k + 1].crcID /\ M[k + 1].payload = L[k + 1].payload
        <4>1. CASE k + 1 = n
          BY <1>4, <4>1
        <4>2. CASE k + 1 # n
          <5>1. k + 1 \in 1..(n - 1)
            BY <1>1, <3>2, <4>2
          <5> QED BY <1>2, <5>1
        <4> QED BY <4>1, <4>2
      <3> QED BY <3>1, <3>3 DEF IsOpened
    <2> QED BY <1>1, <1>2, <2>1, <2>2 DEF LevelsOK
  <1>6. Completed(M, n) = Completed(L, n) \o b
    BY <1>3, <1>4 DEF Completed
  <1>7. n \in 1..n /\ n \in 1..Len(M)
    BY <1>1, <1>2
  <1>8. CASE n = 1 \/ L[n].size.kind = "buffered"
    <2>1. Emitted(M)[n] = Completed(M, n) /\ Emitted(L)[n] = Completed(L, n)
      BY <1>1, <1>2, <1>4, <1>7, <1>8, EmittedIs
    <2> QED BY <1>2, <1>5, <1>6, <2>1 DEF EmitsMore
  <1>9. CASE ~(n = 1 \/ L[n].size.kind = "buffered")
    <2> DEFINE o == Opening(L[n])
               c == Completed(L, n)
               p == Emitted(L)[n - 1]
    <2>1. n - 1 \in 1..Len(L) /\ n - 1 \in Nat /\ n - 1 <= Len(L) /\ n - 1 <= Len(M)
          /\ n - 1 \in 1..(n - 1) /\ Len(M) # 0
      BY <1>1, <1>2, <1>9
    <2>2. /\ Emitted(M)[n] = Emitted(M)[n - 1] \o (Opening(M[n]) \o Completed(M, n))
          /\ Emitted(L)[n] = p \o (o \o c)
      BY <1>1, <1>2, <1>4, <1>7, <1>9, EmittedIs, ZenonT(60)
    <2>3. Emitted(M)[n - 1] = p
      <3> DEFINE m == n - 1
      <3>1. m \in Nat /\ m <= Len(L) /\ m <= Len(M) /\ m \in 1..m /\ Len(L) # 0
            /\ \A i \in 1..m : M[i] = L[i]
        BY <1>1, <1>2, <2>1
      <3> HIDE DEF m, n
      <3>2. \A i \in 1..m : Emitted(M)[i] = Emitted(L)[i]
        BY <1>1, <1>2, <2>1, <3>1, EmittedAlike, ZenonT(60)
      <3> QED BY <3>1, <3>2 DEF m
    <2>4. Opening(M[n]) = o
      BY <1>4 DEF Opening
    <2>5. IsSequence(p) /\ IsSequence(c)
      BY <1>7, <2>1, EmittedSequence, CompletedSequence DEF LevelsOK
    <2>6. IsSequence(o)
      <3>1. L[n].id \in ElementID /\ L[n].size \in Sizes
        <4>1. n - 1 \in 1..Len(F) /\ (n - 1) + 1 = n
          BY <1>1, <1>9
        <4> QED BY <4>1 DEF LevelsOK, IsOpened, IsFrame
      <3> QED BY <1>9, <3>1, OpeningSequence
    <2> HIDE DEF o, c, p, b
    <2>7. IsSequence(b) /\ IsSequence(o \o c)
      BY <2>5, <2>6, Concatenated DEF b
    <2>8. (o \o c) \o b = o \o (c \o b)
      BY ONLY <2>5, <2>6, <2>7, Joined
    <2>9. (p \o (o \o c)) \o b = p \o ((o \o c) \o b)
      BY ONLY <2>5, <2>7, Joined
    <2> HIDE DEF n
    <2>10. Emitted(M)[n] = Emitted(L)[n] \o b
      BY <1>6, <2>2, <2>3, <2>4, <2>8, <2>9 DEF c
    <2> QED BY <1>2, <1>5, <2>10 DEF n, b, EmitsMore
  <1> QED BY <1>8, <1>9

\* The bytes of an element on whose children x is known.
LEMMA EncodedElement ==
  ASSUME NEW h \in 1..(MaxDepth + 1), NEW e \in ElementOf(DOMAIN Encoded[h - 1]),
         NEW children, children = EncodeAll(h - 1, e.children)
  PROVE  /\ e \in DOMAIN Encoded[h]
         /\ Encoded[h][e] = WithHeader(e, Payload(e.payload) \o WithChecksum(e.crcID, children))
  <1> DEFINE x == Encoded[h - 1]
  <1>1. Encoded[h] = EncodedOn(x)
    BY EncodedIs
  <1>2. children = FlattenSeq([i \in DOMAIN e.children |-> x[e.children[i]]])
    BY DEF EncodeAll
  <1>3. e \in ElementOf(DOMAIN x)
    OBVIOUS
  <1> HIDE DEF x
  <1>4. e \in DOMAIN EncodedOn(x)
        /\ EncodedOn(x)[e] = WithHeader(e, Payload(e.payload) \o WithChecksum(e.crcID, children))
    BY <1>2, <1>3 DEF EncodedOn
  <1> QED BY <1>1, <1>4

\* A payload of no bytes is nothing.
LEMMA NoPayload == Payload(0) = << >>
  <1>1. IsSequence(Payload(0)) /\ Len(Payload(0)) = 0
    BY PayloadSequence
  <1>2. \A i \in 1..Len(Payload(0)) : Payload(0)[i] = << >>[i]
    BY <1>1
  <1> QED BY <1>1, <1>2, NothingAdded, SameSequence

\* A leaf is encoded as it is written.
LEMMA LeafEncoded ==
  ASSUME NEW h \in 1..(MaxDepth + 1), NEW id \in ElementID, NEW n \in PayloadSizes,
         NEW size \in Sizes, LeafResult(id, n, size) = "ok",
         NEW width, width = IF size.kind = "reserved" THEN size.width ELSE SizeWidth(n),
         NEW e, e = [id |-> id, size |-> size, crcID |-> "none", payload |-> n,
                     children |-> << >>]
  PROVE  /\ e \in DOMAIN Encoded[h]
         /\ Encoded[h][e] = EncodeID(id) \o SizeBytes(n, width) \o Payload(n)
  <1>1. << >> \in Seq(DOMAIN Encoded[h - 1]) /\ EncodeAll(h - 1, << >>) = << >>
    BY NoElements, EmptySeq
  <1>2. e \in ElementOf(DOMAIN Encoded[h - 1])
    BY <1>1 DEF ElementOf
  <1>3. << >> = EncodeAll(h - 1, e.children)
    BY <1>1
  <1> DEFINE nothing == << >>
  <1>4. nothing = EncodeAll(h - 1, e.children)
    BY <1>3
  <1> HIDE DEF nothing
  <1>5. /\ e \in DOMAIN Encoded[h]
        /\ Encoded[h][e] = WithHeader(e, Payload(e.payload) \o WithChecksum(e.crcID, nothing))
    BY <1>2, <1>4, EncodedElement
  <1>6. WithChecksum(e.crcID, nothing) = << >>
    BY DEF WithChecksum, nothing
  <1>7. IsSequence(Payload(n)) /\ Len(Payload(n)) = n
    <2>1. n \in Nat
      BY WriterAssumption
    <2> QED BY <2>1, PayloadSequence
  <1>8. Payload(n) \o << >> = Payload(n)
    BY <1>7, NothingAdded
  <1>9. SizeField(size, n) = SizeBytes(n, width)
    <2>1. size.kind # "unknown"
      BY DEF LeafResult
    <2> QED BY <2>1 DEF SizeField, EncodeSize
  <1>10. WithHeader(e, Payload(n)) = EncodeID(id) \o SizeField(size, n) \o Payload(n)
    BY <1>7 DEF WithHeader
  <1> QED BY <1>5, <1>6, <1>8, <1>9, <1>10

\* What stands in a level that is complete: its elements, and the checksum over them.
LevelBody(L, k) == WithChecksum(L[k].crcID, Completed(L, k))

\* The innermost master is encoded with what is complete in it.
LEMMA MasterEncoded ==
  ASSUME NEW L, NEW F, LevelsOK(L, F), F # << >>,
         NEW h, h = MaxDepth + 2 - (Len(L) - 1)
  PROVE  /\ h \in 1..(MaxDepth + 1)
         /\ Top(L) \in DOMAIN Encoded[h]
         /\ IsSequence(LevelBody(L, Len(L)))
         /\ Encoded[h][Top(L)] = WithHeader(Top(L), LevelBody(L, Len(L)))
  <1> DEFINE n == Len(L)
             e == L[n]
             c == Completed(L, n)
             b == LevelBody(L, n)
  <1>1. /\ Len(F) \in Nat \ {0} /\ n \in Nat /\ n = Len(F) + 1 /\ Len(F) <= MaxDepth
        /\ MaxDepth \in Nat
    <2>1. IsSequence(F) /\ IsSequence(L)
      BY DEF LevelsOK
    <2>2. Len(F) # 0
      BY <2>1, NothingAdded, SameSequence
    <2> QED BY <2>1, <2>2, SequenceFacts, WriterAssumption DEF LevelsOK
  <1>2. h \in 1..(MaxDepth + 1) /\ h - 1 = MaxDepth + 2 - n
    BY <1>1
  <1>3. n \in 1..n /\ n - 1 \in 1..Len(F) /\ (n - 1) + 1 = n
    BY <1>1
  <1>4. /\ IsLevel(e, h - 1) /\ e.id \in ElementID /\ e.size \in Sizes
        /\ e.crcID \in ElementID \cup {"none"} /\ e.payload = 0
    BY <1>2, <1>3, ZenonT(60) DEF LevelsOK, IsOpened, IsFrame
  <1>5. e \in ElementOf(DOMAIN Encoded[h - 1])
    BY <1>4 DEF IsLevel, ElementOf, Encodable
  <1>6. c = EncodeAll(h - 1, e.children)
    BY <1>2 DEF Completed
  <1>7. IsSequence(c)
    BY <1>4, EncodeAllSequence, <1>6 DEF IsLevel
  <1>8. IsSequence(b)
    <2>1. CASE e.crcID = "none"
      BY <1>7, <2>1 DEF LevelBody, WithChecksum
    <2>2. CASE e.crcID # "none"
      <3>1. IsSequence(ChecksumElement(e.crcID, c))
        BY <1>4, <2>2, ChecksumSequence
      <3> QED BY <1>7, <2>2, <3>1, Concatenated DEF LevelBody, WithChecksum
    <2> QED BY <2>1, <2>2
  <1>9. Payload(0) \o b = b
    BY <1>8, NoPayload, NothingAdded
  <1>10. b = WithChecksum(e.crcID, c)
    BY DEF LevelBody
  <1> HIDE DEF e, c, b
  <1>11. /\ e \in DOMAIN Encoded[h]
         /\ Encoded[h][e] = WithHeader(e, Payload(e.payload) \o WithChecksum(e.crcID, c))
    BY <1>2, <1>5, <1>6, EncodedElement
  <1>12. Top(L) = e
    BY DEF Top, e
  <1> QED BY <1>2, <1>4, <1>8, <1>9, <1>10, <1>11, <1>12 DEF b

\* Without the innermost master the levels are those of the frames around it.
LEMMA PoppedLevels ==
  ASSUME NEW L, NEW F, LevelsOK(L, F), F # << >>
  PROVE  /\ LevelsOK(Pop(L), Pop(F)) /\ Len(Pop(L)) = Len(L) - 1
         /\ \A i \in 1..(Len(L) - 1) : Pop(L)[i] = L[i] /\ Emitted(Pop(L))[i] = Emitted(L)[i]
  <1> DEFINE M == Pop(L)
             G == Pop(F)
             m == Len(L) - 1
  <1>1. /\ Len(F) \in Nat \ {0} /\ IsSequence(G) /\ Len(G) = Len(F) - 1
        /\ \A i \in 1..(Len(F) - 1) : G[i] = F[i]
    BY Popped DEF LevelsOK
  <1>2. IsSequence(L) /\ Len(L) = Len(F) + 1 /\ L # << >>
    <2>1. IsSequence(L) /\ Len(L) = Len(F) + 1
      BY DEF LevelsOK
    <2>2. Len(L) # 0
      BY <1>1, <2>1
    <2> QED BY <2>1, <2>2, NothingAdded
  <1>3. /\ IsSequence(M) /\ Len(M) = m
        /\ \A i \in 1..m : M[i] = L[i]
    BY <1>2, Popped
  <1> HIDE DEF M, G
  <1>4. /\ m \in Nat /\ m <= Len(L) /\ m <= Len(M) /\ Len(L) # 0 /\ Len(M) # 0
        /\ m = Len(G) + 1 /\ Len(G) = m - 1 /\ m = Len(F)
    BY <1>1, <1>2, <1>3
  <1> HIDE DEF m
  <1>5. \A i \in 1..m : Emitted(M)[i] = Emitted(L)[i]
    BY ONLY <1>2, <1>3, <1>4, EmittedAlike
  <1>6. ASSUME NEW k \in 1..Len(M) PROVE IsLevel(M[k], MaxDepth + 2 - k)
    <2>1. k \in 1..m /\ k \in 1..Len(L)
      BY <1>1, <1>2, <1>3, <1>4
    <2> QED BY <1>3, <2>1 DEF LevelsOK
  <1>7. ASSUME NEW k \in 1..Len(G) PROVE IsFrame(G[k]) /\ IsOpened(M[k + 1], G[k])
    <2>1. k \in 1..Len(F) /\ k \in 1..(Len(F) - 1) /\ k + 1 \in 1..m
      BY <1>1, <1>4
    <2> QED BY <1>1, <1>3, <2>1 DEF LevelsOK
  <1>8. Len(G) <= MaxDepth
    BY <1>1, WriterAssumption DEF LevelsOK
  <1>9. LevelsOK(M, G)
    BY <1>1, <1>3, <1>4, <1>6, <1>7, <1>8 DEF LevelsOK
  <1> QED BY <1>3, <1>5, <1>9 DEF M, G, m

\* The innermost of the levels L is complete in M, with the bytes b.
MovesUp(M, L, P, b) ==
  /\ LevelsOK(M, P) /\ Len(M) = Len(L) - 1
  /\ Emitted(M)[Len(M)] = Emitted(L)[Len(L) - 1] \o b
  /\ \A i \in 1..(Len(L) - 2) : Emitted(M)[i] = Emitted(L)[i]

\* When the innermost master is complete its bytes are behind those of the level around it.
LEMMA MasterEmits ==
  ASSUME NEW L, NEW F, LevelsOK(L, F), F # << >>,
         NEW b, b = WithHeader(Top(L), LevelBody(L, Len(L))), IsSequence(b),
         NEW M, M = Complete(Pop(L), Top(L))
  PROVE  MovesUp(M, L, Pop(F), b)
  <1> DEFINE P == Pop(L)
             G == Pop(F)
             e == Top(L)
             h == MaxDepth + 2 - Len(P)
             n == Len(L) - 1
  <1>1. /\ LevelsOK(P, G) /\ Len(P) = n
        /\ \A i \in 1..n : P[i] = L[i] /\ Emitted(P)[i] = Emitted(L)[i]
    BY PoppedLevels
  <1>2. Len(G) \in Nat /\ n = Len(G) + 1 /\ IsSequence(P) /\ IsSequence(L)
    BY <1>1, SequenceFacts DEF LevelsOK
  <1>3. e \in DOMAIN Encoded[h] /\ Encoded[h][e] = b
    BY <1>1, MasterEncoded
  <1> HIDE DEF P, G, e
  <1>3a. /\ e \in DOMAIN Encoded[h] /\ IsSequence(Encoded[h][e]) /\ h = MaxDepth + 2 - Len(P)
         /\ LevelsOK(P, G)
    BY <1>1, <1>3
  <1> HIDE DEF h, n
  <1>4. M = Complete(P, e)
    BY DEF P, e
  <1>5a. LevelsOK(M, G) /\ EmitsMore(M, P, Encoded[h][e])
    BY ONLY <1>3a, <1>4, CompleteEmits
  <1>5. /\ LevelsOK(M, G) /\ Len(M) = Len(P)
        /\ \A i \in 1..(Len(P) - 1) : M[i] = P[i]
        /\ Emitted(M)[Len(P)] = Emitted(P)[Len(P)] \o Encoded[h][e]
    BY <1>5a DEF EmitsMore
  <1>6. LevelsOK(M, G) /\ Len(M) = n
        /\ \A i \in 1..(n - 1) : M[i] = P[i]
    BY <1>1, <1>5
  <1>7. Emitted(M)[n] = Emitted(L)[n] \o b
    <2>1. n \in 1..n
      BY <1>2
    <2> QED BY <1>1, <1>3, <1>5, <2>1
  <1>8. \A i \in 1..(n - 1) : Emitted(M)[i] = Emitted(P)[i]
    <2> DEFINE m == n - 1
    <2>1. /\ m \in Nat /\ m <= Len(P) /\ m <= Len(M) /\ Len(P) # 0 /\ Len(M) # 0
          /\ IsSequence(M) /\ \A i \in 1..m : M[i] = P[i]
      BY <1>1, <1>2, <1>6 DEF LevelsOK
    <2> HIDE DEF m
    <2>2. \A i \in 1..m : Emitted(M)[i] = Emitted(P)[i]
      BY ONLY <1>2, <2>1, EmittedAlike
    <2> QED BY <2>2 DEF m
  <1>9. ASSUME NEW i \in 1..(Len(L) - 2) PROVE Emitted(M)[i] = Emitted(L)[i]
    <2>1. i \in 1..(n - 1) /\ i \in 1..n
      BY <1>2 DEF n
    <2> QED BY <1>1, <1>8, <2>1
  <1> QED BY <1>6, <1>7, <1>9 DEF G, n, MovesUp

-----------------------------------------------------------------------------
(* The document in the targets.                                            *)

\* What a target held before the document: d in the sink.
Base(d, t) == IF t = 0 THEN d ELSE << >>

Holds(F, s, t, L, k, d) == BytesIn(F, s, t) = Base(d, t) \o Emitted(L)[k]

\* While a Buffered master is open its header's place has what the levels around it have
\* emitted; so has the place before a Reserved master's header, behind which is its size.
FrameHolds(F, s, L, k, d) ==
  /\ F[k].kind = "buffered" => Holds(F, s, F[k].prev, L, k, d)
  /\ F[k].kind = "reserved" =>
       F[k].sizeAt = Len(Base(d, F[k].target)) + Len(Emitted(L)[k]) + Len(EncodeID(F[k].id))

\* The frames F, the sink s and the current target c hold the levels L behind d.
DocumentOK(F, s, c, L, d) ==
  /\ FramesOK(F, s) /\ TargetIn(F, c, Len(F)) /\ LevelsOK(L, F) /\ IsSequence(d)
  /\ \A k \in 1..Len(F) : FrameHolds(F, s, L, k, d)
  /\ Holds(F, s, c, L, Len(L), d)

\* All targets but c hold what they held.
SameElsewhere(F, s, G, z, c) ==
  \A k \in 0..Len(F) : \A u \in 0..k :
    TargetIn(F, u, k) /\ u # c => BytesIn(G, z, u) = BytesIn(F, s, u)

\* What the document's levels have emitted, and what they are in, are sequences.
LEMMA DocumentSequences ==
  ASSUME NEW L, NEW F, LevelsOK(L, F), NEW d, IsSequence(d)
  PROVE  /\ Len(F) \in Nat /\ Len(L) = Len(F) + 1
         /\ \A k \in 1..(Len(F) + 1) : IsSequence(Emitted(L)[k])
         /\ \A t : IsSequence(Base(d, t))
  <1>1. Len(F) \in Nat /\ Len(L) = Len(F) + 1
    BY SequenceFacts DEF LevelsOK
  <1>2. \A k \in 1..Len(L) : IsSequence(Emitted(L)[k])
    BY EmittedSequence
  <1>3. \A t : IsSequence(Base(d, t))
    BY NothingAdded DEF Base
  <1> QED BY <1>1, <1>2, <1>3

\* Levels of frames are levels of frames that differ in their buffers.
LEMMA SameLevels ==
  ASSUME NEW L, NEW F, LevelsOK(L, F), NEW G, IsSequence(G), Len(G) = Len(F),
         \A k \in 1..Len(F) : SameFrame(G[k], F[k])
  PROVE  LevelsOK(L, G)
  <1>1. ASSUME NEW k \in 1..Len(G) PROVE IsFrame(G[k]) /\ IsOpened(L[k + 1], G[k])
    BY DEF LevelsOK, SameFrame, IsOpened
  <1> QED BY <1>1 DEF LevelsOK

\* A target that is given what its levels have emitted makes a document again.
LEMMA Redone ==
  ASSUME NEW F, NEW s, NEW c, NEW L, NEW d, IsSequence(d),
         FramesOK(F, s), TargetIn(F, c, Len(F)),
         \A k \in 1..Len(F) : FrameHolds(F, s, L, k, d),
         NEW M, LevelsOK(M, F), \A k \in 1..Len(F) : Emitted(M)[k] = Emitted(L)[k],
         NEW G, NEW z, FramesOK(G, z), Len(G) = Len(F),
         \A k \in 1..Len(F) : SameFrame(G[k], F[k]),
         SameElsewhere(F, s, G, z, c), Holds(G, z, c, M, Len(M), d)
  PROVE  DocumentOK(G, z, c, M, d)
  <1>1. Len(F) \in Nat /\ IsSequence(G)
    BY SequenceFacts DEF FramesOK
  <1>2. LevelsOK(M, G)
    BY <1>1, SameLevels
  <1>3. \A k \in 1..Len(F) : G[k].kind = F[k].kind
    BY DEF SameFrame
  <1>4. TargetIn(G, c, Len(G))
    BY <1>1, <1>3, SameKinds
  <1>5. ASSUME NEW k \in 1..Len(G) PROVE FrameHolds(G, z, M, k, d)
    <2>1. /\ SameFrame(G[k], F[k]) /\ FrameHolds(F, s, L, k, d) /\ Emitted(M)[k] = Emitted(L)[k]
          /\ k - 1 \in 0..Len(F) /\ k \in Int
      BY <1>1
    <2>2. ASSUME F[k].kind = "buffered" PROVE Holds(G, z, F[k].prev, M, k, d)
      <3> DEFINE u == F[k].prev
      <3>1. TargetIn(F, u, k - 1)
        BY <2>2 DEF FramesOK
      <3>2. u \in 0..(k - 1)
        BY <3>1 DEF TargetIn
      <3>3. u # c
        <4> SUFFICES ASSUME u = c PROVE FALSE
          OBVIOUS
        <4>1. k \in (c + 1)..Len(F)
          BY <1>1, <2>1, <3>2
        <4> QED BY <2>2, <4>1 DEF TargetIn
      <3>4. BytesIn(G, z, u) = BytesIn(F, s, u)
        BY <2>1, <3>1, <3>2, <3>3 DEF SameElsewhere
      <3>5. Holds(F, s, u, L, k, d)
        BY <2>1, <2>2 DEF FrameHolds
      <3> HIDE DEF u
      <3>6. Holds(G, z, u, M, k, d)
        BY <2>1, <3>4, <3>5 DEF Holds
      <3> QED BY <3>6 DEF u
    <2>3. /\ G[k].kind = F[k].kind /\ G[k].prev = F[k].prev /\ G[k].target = F[k].target
          /\ G[k].sizeAt = F[k].sizeAt /\ G[k].id = F[k].id
      BY <2>1 DEF SameFrame
    <2> QED BY <2>1, <2>2, <2>3 DEF FrameHolds
  <1> QED BY <1>2, <1>4, <1>5 DEF DocumentOK

\* Bytes may be written to the current target when the innermost level emits them.
LEMMA WrittenOn ==
  ASSUME NEW F, NEW s, NEW c, NEW L, NEW d, DocumentOK(F, s, c, L, d),
         NEW b, IsSequence(b), NEW M, LevelsOK(M, F),
         \A k \in 1..Len(F) : Emitted(M)[k] = Emitted(L)[k],
         Emitted(M)[Len(M)] = Emitted(L)[Len(L)] \o b,
         NEW G, G = ExtendedFrames(F, c, b), NEW z, z = ExtendedSink(s, c, b)
  PROVE  DocumentOK(G, z, c, M, d)
  <1>1. /\ FramesOK(F, s) /\ TargetIn(F, c, Len(F)) /\ LevelsOK(L, F) /\ IsSequence(d)
        /\ \A k \in 1..Len(F) : FrameHolds(F, s, L, k, d)
        /\ Holds(F, s, c, L, Len(L), d)
    BY DEF DocumentOK
  <1>2. /\ FramesOK(G, z) /\ Len(G) = Len(F)
        /\ \A k \in 1..Len(F) : SameFrame(G[k], F[k])
        /\ \A k \in 0..Len(F) : \A u \in 0..k : TargetIn(F, u, k) =>
              /\ TargetIn(G, u, k)
              /\ BytesIn(G, z, u) = IF u = c THEN BytesIn(F, s, c) \o b ELSE BytesIn(F, s, u)
    BY <1>1, Extended, SMTT(30)
  <1>3. SameElsewhere(F, s, G, z, c)
    BY <1>2 DEF SameElsewhere
  <1>4. Len(F) \in Nat /\ Len(F) \in 0..Len(F) /\ c \in 0..Len(F)
        /\ Len(L) = Len(F) + 1 /\ Len(L) \in 1..(Len(F) + 1)
    BY <1>1, DocumentSequences DEF TargetIn
  <1> DEFINE e == Emitted(L)[Len(L)]
             p == Base(d, c)
  <1>5. IsSequence(e) /\ IsSequence(p)
    BY <1>1, <1>4, DocumentSequences
  <1>6. BytesIn(G, z, c) = (p \o e) \o b
    BY <1>1, <1>2, <1>4 DEF Holds
  <1> HIDE DEF e, p
  <1>7. (p \o e) \o b = p \o (e \o b)
    BY ONLY <1>5, IsSequence(b), Joined
  <1>8. Holds(G, z, c, M, Len(M), d)
    BY <1>6, <1>7 DEF Holds, e, p
  <1> QED BY <1>1, <1>2, <1>3, <1>8, Redone

\* Where the innermost frame was, the document around it is left.
LEMMA PoppedDocument ==
  ASSUME NEW F, NEW s, NEW c, NEW L, NEW d, DocumentOK(F, s, c, L, d), F # << >>
  PROVE  /\ FramesOK(Pop(F), s) /\ LevelsOK(Pop(L), Pop(F))
         /\ Len(F) \in Nat \ {0} /\ Len(Pop(F)) = Len(F) - 1 /\ Len(Pop(L)) = Len(F)
         /\ \A k \in 1..Len(Pop(F)) : FrameHolds(Pop(F), s, Pop(L), k, d)
         /\ Top(F).kind = "buffered" => /\ DocumentOK(Pop(F), s, Top(F).prev, Pop(L), d)
                                        /\ c = Len(F)
         /\ Top(F).kind # "buffered" => TargetIn(Pop(F), c, Len(Pop(F)))
                                        /\ BytesIn(Pop(F), s, c) = BytesIn(F, s, c)
  <1> DEFINE P == Pop(F)
             N == Pop(L)
  <1>1. /\ FramesOK(F, s) /\ TargetIn(F, c, Len(F)) /\ LevelsOK(L, F) /\ IsSequence(d)
        /\ \A k \in 1..Len(F) : FrameHolds(F, s, L, k, d)
    BY DEF DocumentOK
  <1>2. /\ Len(F) \in Nat \ {0}
        /\ FramesOK(P, s) /\ Len(P) = Len(F) - 1
        /\ \A i \in 1..(Len(F) - 1) : P[i] = F[i]
        /\ \A k \in 0..(Len(F) - 1) : \A t : TargetIn(F, t, k) =>
              /\ TargetIn(P, t, k)
              /\ BytesIn(P, s, t) = BytesIn(F, s, t)
    BY <1>1, PoppedFrames
  <1>3. /\ LevelsOK(N, P) /\ Len(N) = Len(L) - 1
        /\ \A i \in 1..(Len(L) - 1) : Emitted(N)[i] = Emitted(L)[i]
    BY <1>1, PoppedLevels
  <1>4. Len(L) = Len(F) + 1 /\ Len(N) = Len(F) /\ Len(L) - 1 = Len(F)
    BY <1>1, <1>2, <1>3 DEF LevelsOK
  <1>5. Top(F) = F[Len(F)] /\ Len(F) \in 1..Len(F) /\ Len(F) - 1 \in 0..(Len(F) - 1)
    BY <1>2 DEF Top
  <1> HIDE DEF P, N
  <1>6. ASSUME NEW k \in 1..Len(F), F[k].kind = "buffered"
        PROVE  Holds(P, s, F[k].prev, N, k, d)
    <2>1. Holds(F, s, F[k].prev, L, k, d) /\ TargetIn(F, F[k].prev, k - 1)
      BY <1>1, <1>6 DEF FrameHolds, FramesOK
    <2>2. k - 1 \in 0..(Len(F) - 1) /\ k \in 1..(Len(L) - 1)
      BY <1>2, <1>4
    <2>3. BytesIn(P, s, F[k].prev) = BytesIn(F, s, F[k].prev) /\ Emitted(N)[k] = Emitted(L)[k]
      BY <1>2, <1>3, <2>1, <2>2
    <2> QED BY <2>1, <2>3 DEF Holds
  <1>7. ASSUME NEW k \in 1..Len(P) PROVE FrameHolds(P, s, N, k, d)
    <2>1. k \in 1..Len(F) /\ k \in 1..(Len(F) - 1) /\ k \in 1..(Len(L) - 1) /\ P[k] = F[k]
      BY <1>2, <1>4
    <2>2. FrameHolds(F, s, L, k, d) /\ Emitted(N)[k] = Emitted(L)[k]
      BY <1>1, <1>3, <2>1
    <2> QED BY <1>6, <2>1, <2>2 DEF FrameHolds
  <1>8. ASSUME Top(F).kind = "buffered"
        PROVE  DocumentOK(P, s, Top(F).prev, N, d) /\ c = Len(F)
    <2>1. TargetIn(F, Top(F).prev, Len(F) - 1)
      BY <1>1, <1>5, <1>8 DEF FramesOK
    <2>2. TargetIn(P, Top(F).prev, Len(P))
      BY <1>2, <1>5, <2>1
    <2>3. Holds(P, s, Top(F).prev, N, Len(N), d)
      BY <1>4, <1>5, <1>6, <1>8
    <2>4. c = Len(F)
      <3> SUFFICES ASSUME c # Len(F) PROVE FALSE
        OBVIOUS
      <3>1. c \in 0..Len(F)
        BY <1>1 DEF TargetIn
      <3>2. Len(F) \in (c + 1)..Len(F)
        BY <1>2, <3>1
      <3> QED BY <1>1, <1>5, <1>8, <3>2 DEF TargetIn
    <2> QED BY <1>1, <1>2, <1>3, <1>7, <2>2, <2>3, <2>4 DEF DocumentOK
  <1>9. ASSUME Top(F).kind # "buffered"
        PROVE  TargetIn(P, c, Len(P)) /\ BytesIn(P, s, c) = BytesIn(F, s, c)
    <2>1. TargetIn(F, c, Len(F) - 1)
      BY <1>1, <1>2, <1>5, <1>9 DEF TargetIn
    <2> QED BY <1>2, <1>5, <2>1
  <1> QED BY <1>2, <1>3, <1>4, <1>7, <1>8, <1>9 DEF P, N

-----------------------------------------------------------------------------
(* What each call does to the document.                                    *)

\* A write that fails half way leaves a beginning of what was to be there.
LEMMA WrittenPrefix ==
  ASSUME NEW s, IsSequence(s), NEW b, IsSequence(b), NEW n \in 0..Len(b)
  PROVE  IsPrefix(s \o SubSeq(b, 1, n), s \o b)
  <1> DEFINE p == SubSeq(b, 1, n)
             x == s \o p
             y == s \o b
  <1>1. IsSequence(p) /\ Len(p) = n /\ \A i \in 1..n : p[i] = b[i]
    BY Prefix
  <1> HIDE DEF p
  <1>2. /\ IsSequence(x) /\ Len(x) = Len(s) + n
        /\ \A i \in 1..Len(s) : x[i] = s[i]
        /\ \A i \in 1..n : x[Len(s) + i] = p[i]
    BY ONLY IsSequence(s), <1>1, Concatenated
  <1>3. /\ IsSequence(y) /\ Len(y) = Len(s) + Len(b)
        /\ \A i \in 1..Len(s) : y[i] = s[i]
        /\ \A i \in 1..Len(b) : y[Len(s) + i] = b[i]
    BY Concatenated
  <1>4. Len(s) \in Nat /\ Len(b) \in Nat
    BY SequenceFacts
  <1> HIDE DEF x, y
  <1>5. \A i \in 1..Len(x) : x[i] = y[i]
    <2> TAKE i \in 1..Len(x)
    <2>1. CASE i \in 1..Len(s)
      BY <1>2, <1>3, <2>1
    <2>2. CASE i \notin 1..Len(s)
      <3> DEFINE j == i - Len(s)
      <3>1. j \in 1..n /\ j \in 1..Len(b) /\ i = Len(s) + j
        BY <1>2, <1>4, <2>2
      <3> HIDE DEF j
      <3> QED BY <1>1, <1>2, <1>3, <3>1
    <2> QED BY <2>1, <2>2
  <1>6. Len(x) \in 0..Len(y) /\ Len(x) \in 0..Len(x) /\ Len(x) <= Len(y)
    BY <1>2, <1>3, <1>4
  <1> DEFINE u == SubSeq(x, 1, Len(x))
             v == SubSeq(y, 1, Len(x))
  <1>7. /\ IsSequence(u) /\ Len(u) = Len(x) /\ \A i \in 1..Len(x) : u[i] = x[i]
        /\ IsSequence(v) /\ Len(v) = Len(x) /\ \A i \in 1..Len(x) : v[i] = y[i]
    BY <1>2, <1>3, <1>6, Prefix
  <1> HIDE DEF u, v
  <1>8. u = v
    BY <1>5, <1>7, SameSequence
  <1>9. IsPrefix(x, y)
    BY <1>6, <1>8 DEF IsPrefix, u, v
  <1> QED BY <1>9 DEF x, y, p

\* What a failed writeAll leaves in the sink.
LEMMA WriteAllFails ==
  ASSUME IsSequence(sink), NEW bytes, IsSequence(bytes), NEW t, NEW frames,
         NEW framesOnFailure, WriteAll(t, bytes, frames, framesOnFailure),
         failure = "none", off = Len(sink)
  PROVE  /\ failure' \in {"none", "Write"}
         /\ off' = Len(sink')
         /\ failure' = "Write" => t = 0 /\ IsPrefix(sink', sink \o bytes)
  <1>1. Len(sink) \in Nat /\ Len(bytes) \in Nat
    BY SequenceFacts
  <1>2. CASE t # 0
    BY <1>2 DEF WriteAll
  <1>3. CASE t = 0
    <2>1. PICK n \in 0..Len(bytes) :
            /\ sink' = sink \o SubSeq(bytes, 1, n) /\ off' = off + n
            /\ failure' \in IF n < Len(bytes) THEN {"Write"} ELSE {"none", "Write"}
      BY <1>3 DEF WriteAll
    <2>2. IsPrefix(sink \o SubSeq(bytes, 1, n), sink \o bytes)
      BY WrittenPrefix
    <2>3. IsSequence(SubSeq(bytes, 1, n)) /\ Len(SubSeq(bytes, 1, n)) = n
      BY Prefix
    <2>4. off' = Len(sink')
      BY <2>1, <2>3, Concatenated
    <2>5. failure' \in {"none", "Write"}
      BY <2>1
    <2> QED BY <1>3, <2>1, <2>2, <2>4, <2>5
  <1> QED BY <1>2, <1>3

\* A frame that stays as it was, and its place as well.
LEMMA KeptFrame ==
  ASSUME NEW F, NEW s, NEW L, NEW k, NEW d, FrameHolds(F, s, L, k, d),
         NEW G, NEW z, NEW M, SameFrame(G[k], F[k]), Emitted(M)[k] = Emitted(L)[k],
         F[k].kind = "buffered" => BytesIn(G, z, F[k].prev) = BytesIn(F, s, F[k].prev)
  PROVE  FrameHolds(G, z, M, k, d)
  <1>1. /\ G[k].kind = F[k].kind /\ G[k].prev = F[k].prev /\ G[k].target = F[k].target
        /\ G[k].sizeAt = F[k].sizeAt /\ G[k].id = F[k].id
    BY DEF SameFrame
  <1>2. ASSUME F[k].kind = "buffered" PROVE Holds(G, z, F[k].prev, M, k, d)
    <2>1. Holds(F, s, F[k].prev, L, k, d)
      BY <1>2 DEF FrameHolds
    <2> QED BY <1>2, <2>1 DEF Holds
  <1> QED BY <1>1, <1>2 DEF FrameHolds

\* A master that begins is a level in which nothing is complete yet.
NewLevel(id, size, crcID) ==
  [id |-> id, size |-> size, crcID |-> crcID, payload |-> 0, children |-> << >>]

\* The levels M are L and l, the master that began, in the frames G.
Begins(M, L, G, l) ==
  /\ LevelsOK(M, G) /\ Len(M) = Len(L) + 1
  /\ \A k \in 1..Len(L) : Emitted(M)[k] = Emitted(L)[k]
  /\ l.size.kind = "buffered" => Emitted(M)[Len(M)] = << >>
  /\ l.size.kind # "buffered" => Emitted(M)[Len(M)] = Emitted(L)[Len(L)] \o Opening(l)

\* What is open is open still, and nothing is complete in the new one.
LEMMA PushedLevel ==
  ASSUME NEW L, NEW F, LevelsOK(L, F), Len(F) < MaxDepth,
         NEW id \in ElementID, NEW size \in Sizes, NEW crcID \in ElementID \cup {"none"},
         NEW l, l = NewLevel(id, size, crcID),
         NEW G, IsSequence(G), Len(G) = Len(F) + 1,
         \A k \in 1..Len(F) : SameFrame(G[k], F[k]),
         NEW f, f = G[Len(F) + 1], IsFrame(f), IsOpened(l, f), NEW M, M = Append(L, l)
  PROVE  Begins(M, L, G, l)
  <1> DEFINE n == Len(L)
  <1>1. /\ IsSequence(L) /\ IsSequence(F) /\ Len(F) \in Nat /\ n = Len(F) + 1
    BY SequenceFacts DEF LevelsOK
  <1>2. /\ IsSequence(M) /\ Len(M) = n + 1
        /\ \A i \in 1..n : M[i] = L[i]
        /\ M[n + 1] = l
    BY <1>1, Appended
  <1>3. /\ l.id = id /\ l.size = size /\ l.crcID = crcID /\ l.payload = 0 /\ l.children = << >>
        /\ l = [id |-> l.id, size |-> l.size, crcID |-> l.crcID, payload |-> l.payload,
                children |-> l.children]
    BY DEF NewLevel
  <1>4. \A h : IsLevel(l, h)
    BY <1>3, NoElements DEF IsLevel
  <1> HIDE DEF n
  <1>5. ASSUME NEW k \in 1..Len(M) PROVE IsLevel(M[k], MaxDepth + 2 - k)
    <2>1. CASE k = n + 1
      BY <1>2, <1>4, <2>1
    <2>2. CASE k # n + 1
      <3>1. k \in 1..n
        BY <1>1, <1>2, <2>2
      <3> QED BY <1>2, <3>1 DEF LevelsOK, n
    <2> QED BY <2>1, <2>2
  <1>6. ASSUME NEW k \in 1..Len(G) PROVE IsFrame(G[k]) /\ IsOpened(M[k + 1], G[k])
    <2>1. CASE k = Len(F) + 1
      <3>1. M[k + 1] = l /\ G[k] = f
        BY <1>1, <1>2, <2>1
      <3> QED BY <3>1
    <2>2. CASE k # Len(F) + 1
      <3>1. k \in 1..Len(F) /\ k + 1 \in 1..n
        BY <1>1, <2>2
      <3>2. M[k + 1] = L[k + 1] /\ SameFrame(G[k], F[k])
        BY <1>2, <3>1
      <3>3. IsOpened(L[k + 1], F[k])
        BY <3>1 DEF LevelsOK
      <3> QED BY <3>2, <3>3 DEF SameFrame, IsOpened
    <2> QED BY <2>1, <2>2
  <1>7. Len(G) <= MaxDepth
    BY <1>1, WriterAssumption
  <1>8. LevelsOK(M, G)
    BY <1>1, <1>2, <1>5, <1>6, <1>7 DEF LevelsOK
  <1>9. n \in Nat /\ n <= Len(L) /\ n <= Len(M) /\ Len(L) # 0 /\ Len(M) # 0
        /\ n + 1 \in 1..Len(M) /\ n + 1 # 1 /\ (n + 1) - 1 = n /\ n \in 1..n
    BY <1>1, <1>2 DEF n
  <1>10. \A i \in 1..n : Emitted(M)[i] = Emitted(L)[i]
    BY ONLY <1>1, <1>2, <1>9, EmittedAlike
  <1>11. Completed(M, n + 1) = << >>
    BY <1>2, <1>3, NoElements DEF Completed
  <1>12. CASE size.kind = "buffered"
    <2>1. Emitted(M)[n + 1] = Completed(M, n + 1)
      <3> DEFINE k == n + 1
      <3>1. IsSequence(M) /\ k \in 1..Len(M) /\ M[k].size.kind = "buffered"
        BY <1>2, <1>3, <1>9, <1>12
      <3> HIDE DEF k
      <3>2. Emitted(M)[k] = Completed(M, k)
        BY <3>1, EmittedIs
      <3> QED BY <3>2 DEF k
    <2> QED BY <1>2, <1>3, <1>8, <1>10, <1>11, <1>12, <2>1 DEF n, Begins
  <1>13. CASE size.kind # "buffered"
    <2>1. Emitted(M)[n + 1] = Emitted(M)[n] \o (Opening(l) \o Completed(M, n + 1))
      <3> DEFINE k == n + 1
      <3>1. /\ IsSequence(M) /\ k \in 1..Len(M) /\ ~(k = 1 \/ M[k].size.kind = "buffered")
            /\ M[k] = l /\ k - 1 = n
        BY <1>2, <1>3, <1>9, <1>13
      <3> HIDE DEF k
      <3>2. Emitted(M)[k] = Emitted(M)[k - 1] \o (Opening(M[k]) \o Completed(M, k))
        BY <3>1, EmittedIs
      <3> QED BY <3>1, <3>2 DEF k
    <2>2. IsSequence(Opening(l))
      BY <1>3, <1>13, OpeningSequence
    <2>3. Opening(l) \o Completed(M, n + 1) = Opening(l)
      BY <1>11, <2>2, NothingAdded
    <2> QED BY <1>2, <1>3, <1>8, <1>9, <1>10, <1>13, <2>1, <2>3 DEF n, Begins
  <1> QED BY <1>12, <1>13

\* When the sink is the current target, it is a document.
LEMMA SinkHolds ==
  ASSUME NEW F, NEW s, NEW L, NEW d, DocumentOK(F, s, 0, L, d)
  PROVE  /\ IsSequence(d) /\ IsSequence(Emitted(L)[Len(L)])
         /\ s = d \o Emitted(L)[Len(L)]
  <1>1. LevelsOK(L, F) /\ IsSequence(d) /\ Holds(F, s, 0, L, Len(L), d)
    BY DEF DocumentOK
  <1>2. s = d \o Emitted(L)[Len(L)]
    BY <1>1 DEF Holds, BytesIn, Base
  <1>3. Len(L) = Len(F) + 1 /\ Len(F) \in Nat /\ \A k \in 1..(Len(F) + 1) : IsSequence(Emitted(L)[k])
    BY <1>1, DocumentSequences
  <1>4. Len(L) \in 1..(Len(F) + 1)
    BY <1>3
  <1> QED BY <1>1, <1>2, <1>3, <1>4

\* What a call that writes leaves: the document, or a beginning of it.
Leaves(c, M, d) ==
  /\ failure' \in {"none", "Write"}
  /\ off' = Len(sink')
  /\ failure' = "none" => DocumentOK(open', sink', c, M, d)
  /\ failure' = "Write" => IsPrefix(sink', d \o Emitted(M)[Len(M)])

\* An element written to the current target, whole.
LEMMA Written ==
  ASSUME failure = "none", off = Len(sink),
         NEW F, NEW c, NEW L, NEW d, DocumentOK(F, sink, c, L, d),
         NEW b, IsSequence(b), NEW frames, WriteAll(c, b, F, frames),
         NEW M, LevelsOK(M, F), \A k \in 1..Len(F) : Emitted(M)[k] = Emitted(L)[k],
         Emitted(M)[Len(M)] = Emitted(L)[Len(L)] \o b
  PROVE  Leaves(c, M, d)
  <1>1. IsSequence(sink)
    BY DEF DocumentOK, FramesOK
  <1>2. /\ failure' \in {"none", "Write"} /\ off' = Len(sink')
        /\ failure' = "Write" => c = 0 /\ IsPrefix(sink', sink \o b)
    BY <1>1, WriteAllFails
  <1>3. ASSUME failure' = "none" PROVE DocumentOK(open', sink', c, M, d)
    <2>1. open' = ExtendedFrames(F, c, b) /\ sink' = ExtendedSink(sink, c, b)
      BY <1>3, WriteAllEffect
    <2> DEFINE G == open'
               z == sink'
    <2>2. G = ExtendedFrames(F, c, b) /\ z = ExtendedSink(sink, c, b)
      BY <2>1
    <2> HIDE DEF G, z
    <2>3. DocumentOK(G, z, c, M, d)
      BY <2>2, WrittenOn
    <2> QED BY <2>3 DEF G, z
  <1>4. ASSUME failure' = "Write" PROVE IsPrefix(sink', d \o Emitted(M)[Len(M)])
    <2> DEFINE e == Emitted(L)[Len(L)]
    <2>1. DocumentOK(F, sink, 0, L, d)
      BY <1>2, <1>4
    <2>2. (d \o e) \o b = d \o (e \o b) /\ sink = d \o e
      <3>1. IsSequence(d) /\ IsSequence(e) /\ sink = d \o e
        BY <2>1, SinkHolds
      <3> HIDE DEF e
      <3>2. (d \o e) \o b = d \o (e \o b)
        BY ONLY <3>1, IsSequence(b), Joined
      <3> QED BY <3>1, <3>2
    <2>3. d \o Emitted(M)[Len(M)] = sink \o b
      BY <2>2 DEF e
    <2> QED BY <1>2, <1>4, <2>3, Zenon
  <1> QED BY <1>2, <1>3, <1>4 DEF Leaves

\* A leaf is written whole.
LEMMA LeafDocument ==
  ASSUME off = Len(sink), DocumentOK(open, sink, cur, said, Payload(start)),
         NEW id \in ElementID, NEW n \in PayloadSizes, NEW size \in Sizes, LeafWith(id, n, size)
  PROVE  Leaves(cur, said', Payload(start)) /\ Len(said') = Len(said)
  <1> DEFINE width == IF size.kind = "reserved" THEN size.width ELSE SizeWidth(n)
             b == EncodeID(id) \o SizeBytes(n, width) \o Payload(n)
             e == [id |-> id, size |-> size, crcID |-> "none", payload |-> n, children |-> << >>]
             h == MaxDepth + 2 - Len(said)
             M == said'
  <1>1. /\ failure = "none" /\ LeafResult(id, n, size) = "ok"
        /\ WriteAll(cur, b, open, open)
        /\ M = Complete(said, e)
    BY DEF LeafWith, Usable
  <1>2. IsSequence(b)
    BY <1>1, LeafBytes
  <1>3. /\ LevelsOK(said, open) /\ Len(open) \in Nat /\ Len(said) = Len(open) + 1
        /\ Len(open) <= MaxDepth /\ MaxDepth \in Nat
    BY DocumentSequences, WriterAssumption DEF DocumentOK, LevelsOK
  <1>4. h \in 1..(MaxDepth + 1)
    BY <1>3
  <1>5. e \in DOMAIN Encoded[h] /\ Encoded[h][e] = b
    BY <1>1, <1>4, LeafEncoded
  <1> HIDE DEF b, e, M
  <1>6. h = MaxDepth + 2 - Len(said) /\ e \in DOMAIN Encoded[h] /\ IsSequence(Encoded[h][e])
    BY <1>2, <1>5
  <1> HIDE DEF h
  <1>7. LevelsOK(M, open) /\ EmitsMore(M, said, Encoded[h][e])
    BY ONLY <1>1, <1>3, <1>6, CompleteEmits
  <1>8. /\ Len(M) = Len(said) /\ \A i \in 1..Len(open) : M[i] = said[i]
        /\ Emitted(M)[Len(M)] = Emitted(said)[Len(said)] \o b
    BY <1>3, <1>5, <1>7 DEF EmitsMore
  <1>9. \A k \in 1..Len(open) : Emitted(M)[k] = Emitted(said)[k]
    <2> DEFINE m == Len(open)
               L == said
    <2>1. m \in Nat /\ m <= Len(L) /\ m <= Len(M) /\ Len(L) # 0 /\ Len(M) # 0
          /\ IsSequence(M) /\ IsSequence(L) /\ \A i \in 1..m : M[i] = L[i]
      BY <1>3, <1>7, <1>8 DEF LevelsOK
    <2> HIDE DEF m, L
    <2>2. \A i \in 1..m : Emitted(M)[i] = Emitted(L)[i]
      BY ONLY <2>1, EmittedAlike
    <2> QED BY <2>2 DEF m, L
  <1>10. Leaves(cur, M, Payload(start))
    BY <1>1, <1>2, <1>7, <1>8, <1>9, Written
  <1> QED BY <1>8, <1>10 DEF M

\* A Buffered master that begins has a place of its own, which is empty.
LEMMA StartBufferedDocument ==
  ASSUME NEW F, NEW s, NEW c, NEW L, NEW d, DocumentOK(F, s, c, L, d), Len(F) < MaxDepth,
         NEW id \in ElementID, NEW size \in Sizes, NEW crcID \in ElementID \cup {"none"},
         size.kind = "buffered",
         NEW f, IsFrame(f), f.prev = c, f.buf = << >>, f.kind = "buffered",
         NEW l, l = NewLevel(id, size, crcID), IsOpened(l, f),
         NEW M, M = Append(L, l), NEW G, G = Append(F, f), FramesOK(G, s),
         NEW e, e = Len(G), TargetIn(G, e, e)
  PROVE  DocumentOK(G, s, e, M, d)
  <1>1. /\ FramesOK(F, s) /\ TargetIn(F, c, Len(F)) /\ LevelsOK(L, F) /\ IsSequence(d)
        /\ \A k \in 1..Len(F) : FrameHolds(F, s, L, k, d)
        /\ Holds(F, s, c, L, Len(L), d) /\ IsSequence(F)
    BY DEF DocumentOK, FramesOK
  <1>2. /\ Len(F) \in Nat /\ IsSequence(G) /\ Len(G) = Len(F) + 1
        /\ \A i \in 1..Len(F) : G[i] = F[i]
        /\ G[Len(F) + 1] = f
    BY <1>1, Appended, SequenceFacts
  <1>3. \A k \in 1..Len(F) : SameFrame(G[k], F[k])
    BY <1>1, <1>2 DEF FramesOK, SameFrame
  <1>4. /\ LevelsOK(M, G) /\ Len(M) = Len(L) + 1
        /\ \A k \in 1..Len(L) : Emitted(M)[k] = Emitted(L)[k]
        /\ Emitted(M)[Len(M)] = << >>
    <2>1. f = G[Len(F) + 1] /\ f = f
      BY <1>2
    <2>2. Begins(M, L, G, l)
      BY <1>1, <1>2, <1>3, <2>1, PushedLevel
    <2> QED BY <2>2 DEF Begins, NewLevel
  <1>5. Len(L) = Len(F) + 1 /\ c \in 0..Len(F)
    BY <1>1 DEF LevelsOK, TargetIn
  <1>6. \A u \in 0..Len(F) : BytesIn(G, s, u) = BytesIn(F, s, u)
    BY <1>2 DEF BytesIn
  <1>7. ASSUME NEW k \in 1..Len(G) PROVE FrameHolds(G, s, M, k, d)
    <2>1. CASE k \in 1..Len(F)
      <3>1. F[k].kind = "buffered" => F[k].prev \in 0..Len(F)
        BY <1>1, <1>2, <2>1 DEF FramesOK, TargetIn
      <3>2. /\ SameFrame(G[k], F[k]) /\ FrameHolds(F, s, L, k, d)
            /\ Emitted(M)[k] = Emitted(L)[k]
        BY <1>1, <1>2, <1>3, <1>4, <1>5, <2>1
      <3> QED BY <1>6, <3>1, <3>2, KeptFrame
    <2>2. CASE k \notin 1..Len(F)
      <3>1. k = Len(L) /\ k \in 1..Len(L) /\ G[k] = f
        BY <1>2, <1>5, <2>2
      <3>2. Holds(G, s, c, M, k, d)
        BY <1>1, <1>4, <1>5, <1>6, <3>1 DEF Holds
      <3> QED BY <3>1, <3>2 DEF FrameHolds
    <2> QED BY <2>1, <2>2
  <1>8. Holds(G, s, e, M, Len(M), d)
    <2>1. e # 0 /\ BytesIn(G, s, e) = << >> /\ Base(d, e) = << >>
      BY <1>2 DEF BytesIn, Base
    <2>2. << >> \o << >> = << >>
      BY NothingAdded
    <2> QED BY <1>4, <2>1, <2>2 DEF Holds
  <1> QED BY <1>1, <1>4, <1>7, <1>8 DEF DocumentOK

\* A master that is not kept begins behind what its target holds.
LEMMA StartWrittenDocument ==
  ASSUME NEW F, NEW s, NEW c, NEW L, NEW d, DocumentOK(F, s, c, L, d), Len(F) < MaxDepth,
         NEW id \in ElementID, NEW size \in Sizes, NEW crcID \in ElementID \cup {"none"},
         size.kind # "buffered",
         NEW l, l = NewLevel(id, size, crcID),
         NEW f, IsFrame(f), f.kind # "buffered", f.target = c, f.id = id, IsOpened(l, f),
         f.kind = "reserved" => f.sizeAt = Len(BytesIn(F, s, c)) + Len(EncodeID(id)),
         NEW b, b = Opening(l),
         NEW H, H = ExtendedFrames(F, c, b), NEW z, z = ExtendedSink(s, c, b),
         NEW M, M = Append(L, l), NEW G, G = Append(H, f), FramesOK(G, z),
         TargetIn(G, c, Len(G))
  PROVE  DocumentOK(G, z, c, M, d)
  <1>1. /\ FramesOK(F, s) /\ TargetIn(F, c, Len(F)) /\ LevelsOK(L, F) /\ IsSequence(d)
        /\ \A k \in 1..Len(F) : FrameHolds(F, s, L, k, d)
        /\ Holds(F, s, c, L, Len(L), d) /\ Len(F) \in Nat /\ Len(L) = Len(F) + 1
    BY DocumentSequences DEF DocumentOK
  <1>2. IsSequence(b)
    <2>1. l.id \in ElementID /\ l.size \in Sizes /\ l.size.kind # "buffered"
      BY DEF NewLevel
    <2> QED BY <2>1, OpeningSequence
  <1>3. /\ FramesOK(H, z) /\ Len(H) = Len(F)
        /\ \A k \in 1..Len(F) : SameFrame(H[k], F[k])
        /\ \A k \in 0..Len(F) : \A u \in 0..k : TargetIn(F, u, k) =>
             BytesIn(H, z, u) = IF u = c THEN BytesIn(F, s, c) \o b ELSE BytesIn(F, s, u)
    <2>1. /\ FramesOK(H, z) /\ Len(H) = Len(F)
          /\ \A k \in 1..Len(F) : SameFrame(H[k], F[k])
          /\ \A k \in 0..Len(F) : \A u \in 0..k : TargetIn(F, u, k) =>
               /\ TargetIn(H, u, k)
               /\ BytesIn(H, z, u) = IF u = c THEN BytesIn(F, s, c) \o b ELSE BytesIn(F, s, u)
      <3>1. H = ExtendedFrames(F, c, b) /\ z = ExtendedSink(s, c, b)
        OBVIOUS
      <3> QED BY ONLY <1>1, <1>2, <3>1, Extended
    <2> QED BY <2>1
  <1>4. /\ IsSequence(G) /\ Len(G) = Len(F) + 1
        /\ \A i \in 1..Len(F) : G[i] = H[i]
        /\ G[Len(F) + 1] = f
    BY <1>3, Appended DEF FramesOK
  <1>5. \A k \in 1..Len(F) : SameFrame(G[k], F[k])
    BY <1>3, <1>4
  <1>6. /\ LevelsOK(M, G) /\ Len(M) = Len(L) + 1
        /\ \A k \in 1..Len(L) : Emitted(M)[k] = Emitted(L)[k]
        /\ Emitted(M)[Len(M)] = Emitted(L)[Len(L)] \o b
    <2>1. f = G[Len(F) + 1]
      BY <1>4
    <2>2. Begins(M, L, G, l)
      BY <1>1, <1>4, <1>5, <2>1, PushedLevel
    <2> QED BY <2>2 DEF Begins, NewLevel
  <1>7. c \in 0..Len(F) /\ Len(F) \in 0..Len(F)
    BY <1>1 DEF TargetIn
  <1>8. \A u \in 0..Len(F) : BytesIn(G, z, u) = BytesIn(H, z, u)
    BY <1>4 DEF BytesIn
  <1> DEFINE e == Emitted(L)[Len(L)]
             p == Base(d, c)
  <1>9. IsSequence(e) /\ IsSequence(p)
    <2>1. Len(L) \in 1..(Len(F) + 1)
      BY <1>1
    <2> QED BY <1>1, <2>1, DocumentSequences
  <1>10. BytesIn(F, s, c) = p \o e
    BY <1>1 DEF Holds
  <1> HIDE DEF e, p
  <1>11. ASSUME NEW k \in 1..Len(G) PROVE FrameHolds(G, z, M, k, d)
    <2>1. CASE k \in 1..Len(F)
      <3>1. /\ SameFrame(G[k], F[k]) /\ FrameHolds(F, s, L, k, d)
            /\ Emitted(M)[k] = Emitted(L)[k]
        BY <1>1, <1>5, <1>6, <2>1
      <3>2. ASSUME F[k].kind = "buffered"
            PROVE  BytesIn(G, z, F[k].prev) = BytesIn(F, s, F[k].prev)
        <4> DEFINE u == F[k].prev
        <4>1. TargetIn(F, u, k - 1)
          BY <1>1, <2>1, <3>2 DEF FramesOK
        <4>2. u \in 0..(k - 1) /\ u \in 0..Len(F) /\ k - 1 \in 0..Len(F)
          BY <1>1, <2>1, <4>1 DEF TargetIn
        <4>3. u # c
          <5> SUFFICES ASSUME u = c PROVE FALSE
            OBVIOUS
          <5>1. k \in (c + 1)..Len(F)
            BY <1>1, <2>1, <4>2
          <5> QED BY <1>1, <3>2, <5>1 DEF TargetIn
        <4> HIDE DEF u
        <4>4. BytesIn(H, z, u) = BytesIn(F, s, u)
          BY <1>3, <4>1, <4>2, <4>3
        <4>5. BytesIn(G, z, u) = BytesIn(F, s, u)
          BY <1>8, <4>2, <4>4
        <4> QED BY <4>5 DEF u
      <3> QED BY <3>1, <3>2, KeptFrame
    <2>2. CASE k \notin 1..Len(F)
      <3>1. k = Len(L) /\ k \in 1..Len(L) /\ G[k] = f
        BY <1>1, <1>4, <2>2
      <3>2. Len(BytesIn(F, s, c)) = Len(p) + Len(e)
        BY <1>9, <1>10, Concatenated
      <3>3. Emitted(M)[k] = e
        BY <1>6, <3>1 DEF e
      <3> QED BY <3>1, <3>2, <3>3 DEF FrameHolds, p
    <2> QED BY <2>1, <2>2
  <1>12. Holds(G, z, c, M, Len(M), d)
    <2>1. BytesIn(G, z, c) = (p \o e) \o b
      BY <1>1, <1>3, <1>7, <1>8, <1>10
    <2>2. (p \o e) \o b = p \o (e \o b)
      BY ONLY <1>2, <1>9, Joined
    <2> QED BY <1>6, <2>1, <2>2 DEF Holds, e, p
  <1> QED BY <1>1, <1>6, <1>11, <1>12 DEF DocumentOK

\* A master begins.
LEMMA StartDocument ==
  ASSUME WriterInv, WriterInv', DocumentOK(open, sink, cur, said, Payload(start)),
         NEW id \in ElementID, NEW size \in Sizes, NEW crcID \in ElementID \cup {"none"},
         StartMaster(id, size, crcID)
  PROVE  /\ Leaves(cur', said', Payload(start))
         /\ failure' = "none" => Len(open') = Len(open) + 1
         /\ failure' # "none" => open' = open
  <1> DEFINE f == NewFrame(id, size, crcID)
             l == NewLevel(id, size, crcID)
             M == said'
             d == Payload(start)
             c == cur
             F == open
             s == sink
             b == Opening(l)
  <1>1. /\ failure = "none" /\ Len(F) < MaxDepth /\ StartResult(id, size, crcID) = "ok"
        /\ FramesOK(F, s) /\ TargetIn(F, c, Len(F)) /\ off = Len(s)
        /\ M = Append(said, l) /\ LevelsOK(said, F) /\ IsSequence(F) /\ IsSequence(s)
    BY DEF StartMaster, WriterInv, Usable, DocumentOK, NewLevel, FramesOK
  <1>2. /\ size.kind \in {"buffered", "unknown", "reserved"}
    BY DEF Sizes, Buffered, UnknownSize, Reserved
  <1>3. /\ f.kind = size.kind /\ f.prev = c /\ f.target = c /\ f.width = size.width
        /\ f.id = id /\ f.crcID = crcID /\ f.buf = << >>
        /\ f.sizeAt = Pos + Len(EncodeID(id))
    BY DEF NewFrame
  <1>4. IsFrame(f)
    <2>1. IsSequence(<< >>)
      BY NothingAdded
    <2> QED BY <1>2, <2>1 DEF NewFrame, IsFrame
  <1>5. IsOpened(l, f)
    <2>1. crcID # "none" => size.kind = "buffered"
      BY <1>1 DEF StartResult
    <2> QED BY <1>3, <2>1 DEF IsOpened, NewLevel
  <1>6. l.id = id /\ l.size = size
    BY DEF NewLevel
  <1>7. Pos = Len(BytesIn(F, s, c))
    BY <1>1 DEF Pos, BytesIn
  <1>8. DocumentOK(F, s, c, said, d)
    OBVIOUS
  <1>9. Len(Append(F, f)) = Len(F) + 1
    BY <1>1, Appended
  <1> DEFINE L == said
             G == open'
             z == sink'
             e == cur'
  <1>9a. DocumentOK(F, s, c, L, d) /\ M = Append(L, l)
    BY <1>1
  <1>10. CASE size.kind = "buffered"
    <2>1. G = Append(F, f) /\ e = Len(G) /\ z = s /\ off' = off /\ failure' = "none"
      BY <1>1, <1>10 DEF StartMaster
    <2>2. FramesOK(G, s) /\ TargetIn(G, e, e) /\ off' = Len(z)
      BY <2>1 DEF WriterInv
    <2>3. /\ l = NewLevel(id, size, crcID) /\ f.prev = c /\ f.buf = << >> /\ f.kind = "buffered"
          /\ Len(F) < MaxDepth
      BY <1>1, <1>3, <1>10
    <2> HIDE DEF f, l, M, d, c, F, s, G, z, e, L
    <2>4. DocumentOK(G, s, e, M, d)
      BY <1>4, <1>5, <1>9a, <1>10, <2>1, <2>2, <2>3, StartBufferedDocument
    <2> QED BY <1>9, <2>1, <2>2, <2>4 DEF G, z, e, M, d, F, Leaves
  <1>11. CASE size.kind # "buffered"
    <2>1. WriteAll(c, b, Append(F, f), F) /\ e = c
      <3>1. b = EncodeID(id) \o (IF size.kind = "reserved" THEN SizeBytes(0, size.width)
                                 ELSE UnknownSizeVINT)
        BY <1>2, <1>6, <1>11 DEF Opening, SizeField
      <3> HIDE DEF b
      <3> QED BY <1>11, <3>1 DEF StartMaster
    <2>2. IsSequence(b)
      BY <1>6, <1>11, OpeningSequence
    <2>3. l = NewLevel(id, size, crcID) /\ b = Opening(l) /\ c \in 0..Len(F)
      BY <1>1 DEF TargetIn
    <2>4. /\ failure' \in {"none", "Write"} /\ off' = Len(sink')
          /\ failure' = "Write" => c = 0 /\ IsPrefix(sink', sink \o b)
      <3> HIDE DEF b, f
      <3> QED BY <1>1, <2>1, <2>2, WriteAllFails
    <2>5. ASSUME failure' = "none"
          PROVE  DocumentOK(G, z, e, M, d) /\ Len(open') = Len(open) + 1
      <3> DEFINE H == ExtendedFrames(F, c, b)
      <3>1. z = ExtendedSink(s, c, b) /\ G = ExtendedFrames(Append(F, f), c, b)
        <4> HIDE DEF b, f
        <4> QED BY <2>1, <2>2, <2>5, WriteAllEffect
      <3>2. ExtendedFrames(Append(F, f), c, b) = Append(H, f)
        <4> HIDE DEF b, f, H
        <4> QED BY <1>1, <2>3, AppendedThenExtended DEF H
      <3>3. G = Append(H, f)
        BY <3>1, <3>2
      <3>4. FramesOK(G, z) /\ TargetIn(G, c, Len(G))
        BY <2>1, <2>5 DEF WriterInv
      <3>5. f.kind = "reserved" => f.sizeAt = Len(BytesIn(F, s, c)) + Len(EncodeID(id))
        BY <1>3, <1>7
      <3>6. H = ExtendedFrames(F, c, b) /\ f.kind # "buffered" /\ f.target = c /\ f.id = id
            /\ Len(F) < MaxDepth
        BY <1>1, <1>3, <1>11
      <3>7. Len(H) = Len(F) /\ IsSequence(H)
        <4> HIDE DEF b, f, H, G, z
        <4>1. FramesOK(H, z) /\ Len(H) = Len(F)
          BY <1>1, <2>2, <3>1, <3>6, Extended
        <4> QED BY <4>1 DEF FramesOK
      <3>10. /\ z = ExtendedSink(s, c, b)
             /\ id \in ElementID /\ size \in Sizes /\ crcID \in ElementID \cup {"none"}
        BY <3>1
      <3> HIDE DEF f, l, M, d, c, F, s, G, z, e, L, H, b
      <3>8. DocumentOK(G, z, c, M, d)
        BY ONLY <1>4, <1>5, <1>9a, <1>11, <2>3, <3>3, <3>4, <3>5, <3>6, <3>10, StartWrittenDocument
      <3>9. Len(G) = Len(F) + 1
        BY <3>3, <3>7, Appended
      <3> QED BY <2>1, <3>8, <3>9 DEF G, F
    <2>6. ASSUME failure' = "Write"
          PROVE  IsPrefix(sink', d \o Emitted(M)[Len(M)]) /\ open' = open
      <3>1. c = 0 /\ open' = open
        BY <2>1, <2>4, <2>6 DEF WriteAll
      <3> DEFINE x == Emitted(L)[Len(L)]
      <3>2. IsSequence(d) /\ IsSequence(x) /\ s = d \o x
        <4>1. DocumentOK(F, s, 0, L, d)
          BY <1>9a, <3>1
        <4> HIDE DEF F, s, L, d
        <4> QED BY <4>1, SinkHolds
      <3>3. Emitted(M)[Len(M)] = x \o b
        <4> DEFINE H == Append(F, f)
        <4>1. /\ IsSequence(H) /\ Len(H) = Len(F) + 1 /\ H[Len(F) + 1] = f
              /\ \A k \in 1..Len(F) : H[k] = F[k]
          BY <1>1, Appended
        <4>2. \A k \in 1..Len(F) : SameFrame(H[k], F[k])
          BY <1>1, <4>1 DEF FramesOK, SameFrame
        <4>3. f = H[Len(F) + 1]
          BY <4>1
        <4>4. l = NewLevel(id, size, crcID) /\ LevelsOK(L, F) /\ Len(F) < MaxDepth
          BY <1>1
        <4> HIDE DEF f, l, M, F, L, H
        <4>5. Begins(M, L, H, l)
          BY <1>4, <1>5, <1>9a, <4>1, <4>2, <4>3, <4>4, PushedLevel
        <4> QED BY <1>6, <1>11, <4>5 DEF Begins
      <3> HIDE DEF x, b, d
      <3>4. (d \o x) \o b = d \o (x \o b)
        BY ONLY <2>2, <3>2, Joined
      <3>5. d \o Emitted(M)[Len(M)] = sink \o b
        BY <3>2, <3>3, <3>4
      <3>6. IsPrefix(sink', sink \o b)
        BY <2>4, <2>6
      <3>7. IsPrefix(sink', d \o Emitted(M)[Len(M)])
        BY <3>5, <3>6, Zenon
      <3> QED BY <3>1, <3>7
    <2>7. failure' # "none" => failure' = "Write"
      BY <2>4
    <2> QED BY <2>4, <2>5, <2>6, <2>7 DEF Leaves
  <1> QED BY <1>10, <1>11

\* In the levels M one more master is complete than in N, the levels of the frames P.
Completes(M, N, P, b) ==
  /\ LevelsOK(M, P) /\ Len(M) = Len(N)
  /\ \A k \in 1..Len(P) : Emitted(M)[k] = Emitted(N)[k]
  /\ Emitted(M)[Len(M)] = Emitted(N)[Len(N)] \o b

\* The innermost master becomes an element of the level around it.
LEMMA MasterCompletes ==
  ASSUME NEW L, NEW F, LevelsOK(L, F), F # << >>,
         NEW b, b = WithHeader(Top(L), LevelBody(L, Len(L))), IsSequence(b),
         NEW M, M = Complete(Pop(L), Top(L)), NEW N, N = Pop(L), NEW P, P = Pop(F)
  PROVE  Completes(M, N, P, b)
  <1>1. /\ LevelsOK(M, P) /\ Len(M) = Len(L) - 1
        /\ Emitted(M)[Len(M)] = Emitted(L)[Len(L) - 1] \o b
        /\ \A i \in 1..(Len(L) - 2) : Emitted(M)[i] = Emitted(L)[i]
    <2>1. b = WithHeader(Top(L), LevelBody(L, Len(L))) /\ M = Complete(Pop(L), Top(L))
      OBVIOUS
    <2>2. MovesUp(M, L, Pop(F), b)
      BY ONLY <2>1, LevelsOK(L, F), F # << >>, IsSequence(b), MasterEmits
    <2> QED BY <2>2 DEF MovesUp
  <1>2. /\ LevelsOK(N, P) /\ Len(N) = Len(L) - 1
        /\ \A i \in 1..(Len(L) - 1) : Emitted(N)[i] = Emitted(L)[i]
    <2>1. /\ LevelsOK(Pop(L), Pop(F)) /\ Len(Pop(L)) = Len(L) - 1
          /\ \A i \in 1..(Len(L) - 1) : Pop(L)[i] = L[i] /\ Emitted(Pop(L))[i] = Emitted(L)[i]
      BY PoppedLevels
    <2> QED BY <2>1
  <1>3. Len(P) \in Nat /\ Len(N) = Len(P) + 1 /\ Len(L) = Len(P) + 2
    <2>1. Len(P) \in Nat /\ Len(N) = Len(P) + 1 /\ Len(L) \in Nat
      BY <1>2, SequenceFacts DEF LevelsOK
    <2> QED BY <1>2, <2>1
  <1>4. ASSUME NEW k \in 1..Len(P) PROVE Emitted(M)[k] = Emitted(N)[k]
    <2>1. k \in 1..(Len(L) - 2) /\ k \in 1..(Len(L) - 1)
      BY <1>3
    <2> QED BY <1>1, <1>2, <2>1
  <1>5. Emitted(N)[Len(N)] = Emitted(L)[Len(L) - 1]
    <2>1. Len(L) - 1 \in 1..(Len(L) - 1)
      BY <1>3
    <2> QED BY <1>2, <2>1
  <1> QED BY <1>1, <1>2, <1>4, <1>5 DEF Completes

\* The innermost level l of the levels L, the n-th, is what the frame f was opened for;
\* one that is not kept has emitted its header, and what is complete in it, in its place.
Innermost(L, n, l, f) ==
  /\ IsSequence(Completed(L, n)) /\ IsSequence(Emitted(L)[n - 1])
  /\ IsSequence(Emitted(L)[n]) /\ IsFrame(f)
  /\ l.id = f.id /\ l.crcID = f.crcID /\ l.size.kind = f.kind /\ l.size.width = f.width
  /\ l.size \in Sizes /\ l.id \in ElementID
  /\ f.kind = "buffered" => Emitted(L)[n] = Completed(L, n)
  /\ f.kind # "buffered" =>
       /\ Emitted(L)[n] = Emitted(L)[n - 1] \o (Opening(l) \o Completed(L, n))
       /\ LevelBody(L, n) = Completed(L, n) /\ IsSequence(Opening(l))

\* So it is of the innermost of the masters that are open.
LEMMA OpenMaster ==
  ASSUME NEW L, NEW F, LevelsOK(L, F), F # << >>,
         NEW n, n = Len(L), NEW l, l = Top(L), NEW f, f = Top(F)
  PROVE  Innermost(L, n, l, f)
  <1>1. /\ IsSequence(L) /\ IsSequence(F) /\ Len(F) \in Nat \ {0} /\ n = Len(F) + 1
    <2>1. IsSequence(L) /\ IsSequence(F) /\ n = Len(F) + 1
      BY DEF LevelsOK
    <2>2. Len(F) # 0
      BY <2>1, NothingAdded, SameSequence
    <2> QED BY <2>1, <2>2, SequenceFacts
  <1>2. n \in 1..Len(L) /\ n - 1 \in 1..Len(L) /\ n - 1 \in 1..Len(F) /\ (n - 1) + 1 = n /\ n # 1
        /\ n - 1 = Len(F)
    BY <1>1
  <1>3. l = L[n] /\ f = F[n - 1]
    BY <1>2 DEF Top
  <1>4. IsFrame(f) /\ IsOpened(l, f) /\ IsLevel(L[n], MaxDepth + 2 - n)
    BY <1>2, <1>3 DEF LevelsOK
  <1>5. /\ IsSequence(Completed(L, n)) /\ IsSequence(Emitted(L)[n - 1]) /\ IsSequence(Emitted(L)[n])
    BY <1>2, <1>4, CompletedSequence, EmittedSequence
  <1>6. /\ l.id = f.id /\ l.crcID = f.crcID /\ l.size.kind = f.kind /\ l.size.width = f.width
        /\ l.size \in Sizes /\ l.id \in ElementID
    BY <1>4 DEF IsOpened, IsFrame
  <1>7. Emitted(L)[n] = IF n = 1 \/ L[n].size.kind = "buffered" THEN Completed(L, n)
                        ELSE Emitted(L)[n - 1] \o (Opening(L[n]) \o Completed(L, n))
    BY <1>1, <1>2, EmittedIs
  <1>8. f.kind = "buffered" => Emitted(L)[n] = Completed(L, n)
    BY <1>3, <1>6, <1>7
  <1>9. ASSUME f.kind # "buffered"
        PROVE  /\ Emitted(L)[n] = Emitted(L)[n - 1] \o (Opening(l) \o Completed(L, n))
               /\ LevelBody(L, n) = Completed(L, n) /\ IsSequence(Opening(l))
    <2>1. l.crcID = "none"
      BY <1>4, <1>9 DEF IsOpened
    <2>2. LevelBody(L, n) = Completed(L, n)
      BY <1>3, <2>1 DEF LevelBody, WithChecksum
    <2>3. IsSequence(Opening(l))
      BY <1>6, <1>9, OpeningSequence
    <2> QED BY <1>2, <1>3, <1>6, <1>7, <1>9, <2>2, <2>3
  <1> QED BY <1>4, <1>5, <1>6, <1>8, <1>9 DEF Innermost

\* The master's frame is gone and its element is complete: b is behind the bytes of the
\* levels around it, in the target that is current, which was current in it too.
LEMMA EndedDocument ==
  ASSUME NEW F, NEW s, NEW c, NEW L, NEW d, DocumentOK(F, s, c, L, d), F # << >>,
         Top(F).kind # "buffered",
         NEW b, NEW M, NEW N, N = Pop(L), NEW P, P = Pop(F), Completes(M, N, P, b), IsSequence(b),
         NEW e, e = Emitted(N)[Len(N)],
         NEW G, NEW z, FramesOK(G, z), Len(G) = Len(P),
         \A k \in 1..Len(P) : SameFrame(G[k], P[k]),
         SameElsewhere(P, s, G, z, c), BytesIn(G, z, c) = Base(d, c) \o (e \o b)
  PROVE  DocumentOK(G, z, c, M, d)
  <1>1. /\ FramesOK(P, s) /\ LevelsOK(N, P)
        /\ \A k \in 1..Len(P) : FrameHolds(P, s, N, k, d)
        /\ TargetIn(P, c, Len(P))
    BY PoppedDocument
  <1>2. IsSequence(d)
    BY DEF DocumentOK
  <1>3. Holds(G, z, c, M, Len(M), d)
    BY DEF Holds, Completes
  <1> QED BY <1>1, <1>2, <1>3, Redone DEF Completes

\* A master of unknown size ends where it is.
LEMMA EndUnknownDocument ==
  ASSUME DocumentOK(open, sink, cur, said, Payload(start)), EndUnknown
  PROVE  DocumentOK(open', sink', cur', said', Payload(start))
  <1> DEFINE F == open
             s == sink
             c == cur
             L == said
             d == Payload(start)
             P == open'
             M == said'
             N == Pop(L)
             n == Len(L)
             l == Top(L)
             f == Top(F)
             k == Completed(L, n)
             b == Opening(l) \o k
             e == Emitted(N)[Len(N)]
  <1>1. /\ F # << >> /\ f.kind = "unknown" /\ P = Pop(F) /\ sink' = s /\ cur' = c
        /\ M = Complete(N, l) /\ DocumentOK(F, s, c, L, d)
    BY DEF EndUnknown, SaidMaster
  <1>2. FramesOK(F, s) /\ LevelsOK(L, F) /\ IsSequence(d) /\ Holds(F, s, c, L, n, d)
    BY <1>1 DEF DocumentOK
  <1>3. /\ IsSequence(k) /\ l.size.kind = "unknown"
        /\ Emitted(L)[n] = Emitted(L)[n - 1] \o b
        /\ LevelBody(L, n) = k /\ IsSequence(Opening(l))
    <2>1. n = Len(L) /\ l = Top(L) /\ f = Top(F)
      OBVIOUS
    <2> HIDE DEF F, L, n, l, f, k
    <2>2. Innermost(L, n, l, f)
      BY <1>1, <1>2, <2>1, OpenMaster
    <2> QED BY <1>1, <2>2 DEF Innermost, k
  <1>4. IsSequence(b)
    BY <1>3, Concatenated
  <1>5. b = WithHeader(l, LevelBody(L, n))
    BY <1>3 DEF WithHeader, Opening, SizeField
  <1> HIDE DEF b
  <1>6. Completes(M, N, P, b)
    <2>1. b = WithHeader(Top(L), LevelBody(L, Len(L))) /\ M = Complete(Pop(L), Top(L)) /\ N = Pop(L)
      BY <1>1, <1>5
    <2> HIDE DEF N, M, P, F, L
    <2> QED BY <1>1, <1>2, <1>4, <2>1, MasterCompletes
  <1>7. /\ FramesOK(P, s) /\ TargetIn(P, c, Len(P)) /\ BytesIn(P, s, c) = BytesIn(F, s, c)
        /\ Len(N) = n - 1 /\ Emitted(N)[n - 1] = Emitted(L)[n - 1]
    <2> HIDE DEF N, M, P, F, L, s, c, d, n
    <2>1. /\ FramesOK(P, s) /\ TargetIn(P, c, Len(P)) /\ BytesIn(P, s, c) = BytesIn(F, s, c)
      BY <1>1, PoppedDocument
    <2>2. /\ Len(Pop(L)) = Len(L) - 1
          /\ \A i \in 1..(Len(L) - 1) : Pop(L)[i] = L[i] /\ Emitted(Pop(L))[i] = Emitted(L)[i]
          /\ LevelsOK(Pop(L), Pop(F))
      BY <1>1, <1>2, PoppedLevels
    <2>3. n - 1 \in 1..(Len(L) - 1)
      <3>1. Len(Pop(L)) = Len(Pop(F)) + 1 /\ Len(Pop(F)) \in Nat
        BY <2>2, SequenceFacts DEF LevelsOK
      <3> QED BY <2>2, <3>1 DEF n
    <2> QED BY <2>1, <2>2, <2>3 DEF N, n
  <1>8. BytesIn(P, s, c) = Base(d, c) \o (e \o b)
    BY <1>2, <1>3, <1>7 DEF Holds
  <1>9. \A i \in 1..Len(P) : SameFrame(P[i], P[i])
    BY <1>7 DEF FramesOK, SameFrame
  <1>10. SameElsewhere(P, s, P, s, c)
    BY DEF SameElsewhere
  <1>11. f.kind # "buffered" /\ N = Pop(L) /\ e = Emitted(N)[Len(N)] /\ Len(P) = Len(P)
    BY <1>1
  <1> HIDE DEF F, s, c, L, d, P, M, N, n, e
  <1>12. DocumentOK(P, s, c, M, d)
    BY <1>1, <1>4, <1>6, <1>7, <1>8, <1>9, <1>10, <1>11, EndedDocument
  <1> QED BY <1>1, <1>12 DEF P, M, d

\* A Buffered master that ends goes, whole, to where its header would have gone.
LEMMA EndBufferedDocument ==
  ASSUME off = Len(sink), DocumentOK(open, sink, cur, said, Payload(start)),
         EndBuffered, ~(Len(Body(Top(open))) > MaxKnownSize)
  PROVE  Leaves(cur', said', Payload(start))
  <1> DEFINE F == open
             s == sink
             c == cur
             L == said
             d == Payload(start)
             P == Pop(F)
             M == said'
             N == Pop(L)
             n == Len(L)
             l == Top(L)
             f == Top(F)
             t == f.prev
             k == Completed(L, n)
             b == EncodeID(f.id) \o EncodeSize(Len(Body(f))) \o Body(f)
  <1>1. /\ failure = "none" /\ F # << >> /\ f.kind = "buffered" /\ cur' = t
        /\ M = Complete(N, l) /\ DocumentOK(F, s, c, L, d)
        /\ WriteAll(t, b, P, P)
    BY DEF EndBuffered, SaidMaster, Usable
  <1>2. FramesOK(F, s) /\ LevelsOK(L, F) /\ IsSequence(d) /\ Holds(F, s, c, L, n, d)
    BY <1>1 DEF DocumentOK
  <1>3. /\ IsSequence(k) /\ IsFrame(f) /\ l.size.kind = "buffered" /\ Emitted(L)[n] = k
        /\ l.id = f.id /\ l.crcID = f.crcID
    <2>1. n = Len(L) /\ l = Top(L) /\ f = Top(F)
      OBVIOUS
    <2> HIDE DEF F, L, n, l, f, k
    <2>2. Innermost(L, n, l, f)
      BY <1>1, <1>2, <2>1, OpenMaster
    <2> QED BY <1>1, <2>2 DEF Innermost, k
  <1>4. IsSequence(b)
    <2>1. ~(Len(Body(f)) > MaxKnownSize)
      OBVIOUS
    <2> HIDE DEF f
    <2> QED BY <1>3, <2>1, MasterBytes
  <1>5. /\ DocumentOK(P, s, t, N, d) /\ c = Len(F) /\ Len(F) # 0
    <2> HIDE DEF F, L, s, c, d
    <2>1. /\ f.kind = "buffered" => DocumentOK(Pop(F), s, f.prev, Pop(L), d) /\ c = Len(F)
          /\ Len(F) \in Nat \ {0}
      BY <1>1, PoppedDocument
    <2> QED BY <1>1, <2>1
  <1>6. f.buf = k
    <2>1. BytesIn(F, s, c) = f.buf /\ Base(d, c) = << >>
      BY <1>5 DEF BytesIn, Base, Top
    <2>2. << >> \o k = k
      BY <1>3, NothingAdded
    <2> QED BY <1>2, <1>3, <2>1, <2>2 DEF Holds
  <1>7. Body(f) = LevelBody(L, n)
    <2>1. LevelBody(L, n) = WithChecksum(l.crcID, k)
      BY DEF LevelBody, Top
    <2> HIDE DEF k, l, f
    <2> QED BY <1>3, <1>6, <2>1 DEF Body, WithChecksum
  <1>8. b = WithHeader(l, LevelBody(L, n))
    <2> DEFINE y == LevelBody(L, n)
    <2>1. SizeField(l.size, Len(y)) = EncodeSize(Len(y))
      BY <1>3 DEF SizeField
    <2>2. b = EncodeID(l.id) \o EncodeSize(Len(y)) \o y
      BY <1>3, <1>7
    <2> HIDE DEF y, l, b
    <2> QED BY <2>1, <2>2 DEF WithHeader, y
  <1>9. Completes(M, N, P, b)
    <2>1. b = WithHeader(Top(L), LevelBody(L, Len(L))) /\ M = Complete(Pop(L), Top(L)) /\ N = Pop(L)
          /\ P = Pop(F)
      BY <1>1, <1>8
    <2> HIDE DEF N, M, P, F, L, b
    <2> QED BY <1>1, <1>2, <1>4, <2>1, MasterCompletes
  <1>10. /\ LevelsOK(M, P) /\ \A i \in 1..Len(P) : Emitted(M)[i] = Emitted(N)[i]
         /\ Emitted(M)[Len(M)] = Emitted(N)[Len(N)] \o b
    BY <1>9 DEF Completes
  <1> HIDE DEF N, M, P, F, L, b, t, d, f
  <1>11. Leaves(t, M, d)
    BY <1>1, <1>4, <1>5, <1>10, Written
  <1> QED BY <1>1, <1>11 DEF M, d

\* The sequence r is s and then t.
IsJoin(r, s, t) ==
  /\ IsSequence(r) /\ Len(r) = Len(s) + Len(t)
  /\ \A i \in 1..Len(s) : r[i] = s[i]
  /\ \A i \in 1..Len(t) : r[Len(s) + i] = t[i]

\* A concatenation is one.
LEMMA JoinIs ==
  ASSUME NEW s, NEW t, IsSequence(s), IsSequence(t), NEW r, r = s \o t
  PROVE  IsJoin(r, s, t)
  BY Concatenated DEF IsJoin

\* The sequence x is p, z and q.
IsSplit(x, p, z, q) == x = p \o (z \o q)

\* Bytes of the same length written over those between two sequences.
LEMMA OverwrittenBetween ==
  ASSUME NEW p, IsSequence(p), NEW z, IsSequence(z), NEW q, IsSequence(q),
         NEW y, IsSequence(y), Len(y) = Len(z), NEW at, at = Len(p),
         NEW x, IsSplit(x, p, z, q), NEW r, IsSplit(r, p, y, q)
  PROVE  Overwritten(x, at, y) = r
  <1> DEFINE zq == z \o q
             yq == y \o q
             o  == Overwritten(x, at, y)
  <1>1. /\ Len(p) \in Nat /\ Len(z) \in Nat /\ Len(q) \in Nat /\ DOMAIN y = 1..Len(y)
    BY SequenceFacts
  <1>2. IsJoin(zq, z, q)
    BY JoinIs
  <1>3. IsJoin(yq, y, q)
    BY JoinIs
  <1>4. x = p \o zq /\ r = p \o yq
    BY DEF IsSplit
  <1> HIDE DEF zq, yq
  <1>4a. IsSequence(zq) /\ IsSequence(yq)
    BY <1>2, <1>3 DEF IsJoin
  <1>5. IsJoin(x, p, zq)
    BY ONLY <1>4, <1>4a, IsSequence(p), JoinIs
  <1>6. IsJoin(r, p, yq)
    BY ONLY <1>4, <1>4a, IsSequence(p), JoinIs
  <1> USE DEF IsJoin
  <1>7. IsSequence(o) /\ Len(o) = Len(x)
    BY <1>5, OverwrittenFacts
  <1>8. \A i \in 1..Len(x) : o[i] = IF i - at \in 1..Len(z) THEN y[i - at] ELSE x[i]
    <2>1. DOMAIN x = 1..Len(x)
      BY <1>5, SequenceFacts
    <2> QED BY <1>1, <2>1 DEF Overwritten
  <1> HIDE DEF o
  <1>9. ASSUME NEW i \in 1..Len(x) PROVE o[i] = r[i]
    <2>1. CASE i \in 1..Len(p)
      <3>1. i - at \notin 1..Len(z)
        BY <1>1, <2>1
      <3> QED BY <1>5, <1>6, <1>8, <2>1, <3>1
    <2>2. CASE i - at \in 1..Len(z)
      <3> DEFINE j == i - at
      <3>1. j \in 1..Len(z) /\ j \in 1..Len(yq) /\ i = Len(p) + j
        BY <1>1, <1>3, <1>5, <2>2
      <3>2. o[i] = y[j]
        BY <1>8, <2>2
      <3> HIDE DEF j
      <3> QED BY <1>3, <1>6, <3>1, <3>2
    <2>3. CASE i \notin 1..Len(p) /\ i - at \notin 1..Len(z)
      <3> DEFINE j == i - Len(p) - Len(z)
      <3>1. j \in 1..Len(q) /\ i = Len(p) + (Len(z) + j) /\ Len(z) + j \in 1..Len(zq)
            /\ Len(z) + j \in 1..Len(yq)
        BY <1>1, <1>2, <1>3, <1>5, <2>3
      <3>2. o[i] = x[i]
        BY <1>8, <2>3
      <3> HIDE DEF j
      <3>3. x[i] = q[j] /\ r[i] = q[j]
        BY <1>2, <1>3, <1>5, <1>6, <3>1
      <3> QED BY <3>2, <3>3
    <2> QED BY <2>1, <2>2, <2>3
  <1>10. Len(o) = Len(r)
    BY <1>2, <1>3, <1>5, <1>6, <1>7
  <1>11. o = r
    BY <1>6, <1>7, <1>9, <1>10, SameSequence
  <1> QED BY <1>11 DEF o

\* A size field, inside what stands before and behind it.
LEMMA Regrouped ==
  ASSUME NEW b, IsSequence(b), NEW e, IsSequence(e), NEW i, IsSequence(i), NEW z, IsSequence(z),
         NEW k, IsSequence(k), NEW p, p = b \o (e \o i),
         NEW x, x = b \o (e \o ((i \o z) \o k))
  PROVE  IsSplit(x, p, z, k)
  <1> DEFINE zk == z \o k
             ei == e \o i
  <1>1. IsSequence(zk) /\ IsSequence(ei)
    BY Concatenated
  <1>2. (i \o z) \o k = i \o zk
    BY Joined, SMTT(30)
  <1>3. (e \o i) \o zk = e \o (i \o zk)
    <2> HIDE DEF zk
    <2> QED BY ONLY <1>1, IsSequence(e), IsSequence(i), Joined
  <1>4. p = b \o ei
    OBVIOUS
  <1> HIDE DEF ei, zk
  <1>5. (b \o ei) \o zk = b \o (ei \o zk)
    BY ONLY <1>1, IsSequence(b), Joined
  <1>6. b \o (e \o (i \o zk)) = p \o zk
    BY <1>3, <1>4, <1>5 DEF ei
  <1> QED BY <1>2, <1>6 DEF zk, IsSplit

\* The size of a Reserved master counts what is complete in it.
LEMMA EndReservedDocument ==
  ASSUME WriterInv, WriterInv', DocumentOK(open, sink, cur, said, Payload(start)),
         EndReserved, failure' = "none"
  PROVE  DocumentOK(open', sink', cur', said', Payload(start))
  <1> DEFINE F == open
             s == sink
             c == cur
             L == said
             d == Payload(start)
             P == Pop(F)
             M == said'
             N == Pop(L)
             n == Len(L)
             l == Top(L)
             f == Top(F)
             k == Completed(L, n)
             w == f.width
             size == Pos - f.payloadAt
             new == SizeBytes(size, w)
             zero == SizeBytes(0, w)
             id == EncodeID(f.id)
             b == (id \o new) \o k
             e == Emitted(L)[n - 1]
             G == open'
             z == sink'
             h == Base(d, c)
             p == h \o (e \o id)
             x == BytesIn(F, s, c)
             at == f.sizeAt
  <1>1. /\ failure = "none" /\ F # << >> /\ f.kind = "reserved" /\ cur' = c
        /\ M = Complete(N, l) /\ DocumentOK(F, s, c, L, d)
        /\ Patch(f, new) /\ off = Len(s)
    BY DEF EndReserved, SaidMaster, Usable, WriterInv
  <1>2. /\ FramesOK(F, s) /\ LevelsOK(L, F) /\ IsSequence(d) /\ Holds(F, s, c, L, n, d)
        /\ TargetIn(F, c, Len(F)) /\ \A i \in 1..Len(F) : FrameHolds(F, s, L, i, d)
    BY <1>1 DEF DocumentOK
  <1>3. /\ IsSequence(k) /\ IsSequence(e) /\ l.size.kind = "reserved" /\ l.size.width = w
        /\ l.id = f.id /\ l.id \in ElementID
        /\ Emitted(L)[n] = e \o (Opening(l) \o k)
        /\ LevelBody(L, n) = k
    <2>1. n = Len(L) /\ l = Top(L) /\ f = Top(F) /\ f.kind # "buffered"
      BY <1>1
    <2> HIDE DEF F, L, n, l, f, k, e
    <2>2. Innermost(L, n, l, f)
      BY <1>1, <1>2, <2>1, OpenMaster
    <2> QED BY <1>1, <2>1, <2>2 DEF Innermost, k, e, w
  <1>4. /\ FramesOK(P, s) /\ Len(F) \in Nat \ {0} /\ Len(P) = Len(F) - 1 /\ Len(N) = Len(F)
        /\ TargetIn(P, c, Len(P)) /\ BytesIn(P, s, c) = x
    <2> HIDE DEF F, L, s, c, d
    <2>1. /\ FramesOK(Pop(F), s) /\ Len(F) \in Nat \ {0} /\ Len(Pop(F)) = Len(F) - 1
          /\ Len(Pop(L)) = Len(F)
          /\ f.kind # "buffered" => TargetIn(Pop(F), c, Len(Pop(F)))
                                    /\ BytesIn(Pop(F), s, c) = BytesIn(F, s, c)
      BY <1>1, PoppedDocument
    <2> QED BY <1>1, <2>1
  <1>5. /\ f = F[Len(F)] /\ Len(F) \in 1..Len(F) /\ n = Len(F) + 1 /\ n - 1 = Len(F)
    BY <1>2, <1>4 DEF Top, LevelsOK
  <1>6. /\ TargetIn(F, f.target, Len(F) - 1)
        /\ PlaceholderIn(f, BytesIn(F, s, f.target))
    BY <1>1, <1>2, <1>5 DEF FramesOK
  <1>7. c = f.target
    <2>1. c \in 0..(Len(F) - 1)
      BY <1>1, <1>2, <1>4, <1>5 DEF TargetIn
    <2>2. f.target \in 0..(Len(F) - 1)
      BY <1>6 DEF TargetIn
    <2>3. ~(c < f.target)
      BY <1>1, <1>2, <1>4, <1>5, <1>6, <2>1, <2>2 DEF TargetIn
    <2>4. ~(f.target < c)
      BY <1>1, <1>2, <1>4, <1>5, <1>6, <2>1, <2>2 DEF TargetIn
    <2> QED BY <1>4, <2>1, <2>2, <2>3, <2>4
  <1>8. w \in Nat /\ at \in Nat /\ f.payloadAt = at + w
    BY <1>6 DEF PlaceholderIn
  <1>9. at = Len(h) + Len(e) + Len(id)
    <2>1. FrameHolds(F, s, L, Len(F), d)
      BY <1>2, <1>5
    <2> QED BY <1>1, <1>5, <1>7, <2>1 DEF FrameHolds
  <1>10. /\ IsSequence(id) /\ IsSequence(h) /\ IsSequence(zero) /\ Len(zero) = w
         /\ IsSequence(new) /\ Len(new) = w
    BY <1>2, <1>3, <1>8, IDBytes, SizeSequence, NothingAdded DEF Base
  <1>11. Opening(l) = id \o zero
    BY <1>3 DEF Opening, SizeField
  <1>12. x = h \o (e \o ((id \o zero) \o k))
    BY <1>2, <1>3, <1>11 DEF Holds
  <1> DEFINE r == h \o (e \o b)
  <1>13. /\ IsSequence(p) /\ Len(p) = Len(h) + Len(e) + Len(id)
         /\ IsSplit(x, p, zero, k) /\ IsSplit(r, p, new, k)
    <2>1. /\ p = h \o (e \o id) /\ r = h \o (e \o ((id \o new) \o k))
          /\ x = h \o (e \o ((id \o zero) \o k))
          /\ IsSequence(e) /\ IsSequence(k)
      BY <1>3, <1>12
    <2> HIDE DEF h, e, id, zero, new, k, p, r, x
    <2>2. IsSequence(p) /\ Len(p) = Len(h) + Len(e) + Len(id)
      <3> DEFINE q == e \o id
      <3>1. IsSequence(q) /\ Len(q) = Len(e) + Len(id) /\ p = h \o q
        BY <1>10, <2>1, Concatenated
      <3> HIDE DEF q
      <3>2. IsJoin(p, h, q)
        BY <1>10, <3>1, JoinIs
      <3>3. Len(h) \in Nat /\ Len(e) \in Nat /\ Len(id) \in Nat
        BY <1>10, <2>1, SequenceFacts
      <3> QED BY <3>1, <3>2, <3>3 DEF IsJoin
    <2>3. IsSplit(x, p, zero, k)
      BY ONLY <1>10, <2>1, Regrouped
    <2>4. IsSplit(r, p, new, k)
      BY ONLY <1>10, <2>1, Regrouped
    <2> QED BY <2>2, <2>3, <2>4
  <1>14. size = Len(k)
    <2>1. Pos = Len(x)
      BY <1>1 DEF Pos, BytesIn
    <2>2. Len(x) = Len(p) + (Len(zero) + Len(k))
      <3> HIDE DEF p, zero, k, x
      <3> DEFINE q == zero \o k
      <3>1. IsSequence(q) /\ Len(q) = Len(zero) + Len(k) /\ x = p \o q
        BY <1>3, <1>10, <1>13, Concatenated DEF IsSplit
      <3> HIDE DEF q
      <3>2. IsJoin(x, p, q)
        BY <1>13, <3>1, JoinIs
      <3> QED BY <3>1, <3>2 DEF IsJoin
    <2>3. Len(p) \in Nat /\ Len(k) \in Nat
      BY <1>3, <1>13, SequenceFacts
    <2> HIDE DEF p, zero, k, x, w, at, h, e, id
    <2> QED BY <1>8, <1>9, <1>10, <1>13, <2>1, <2>2, <2>3
  <1>15. IsSequence(b)
    <2> HIDE DEF id, new, k
    <2>1. IsSequence(id \o new)
      BY <1>10, Concatenated
    <2> QED BY <1>3, <2>1, Concatenated
  <1>16. b = WithHeader(l, LevelBody(L, n))
    <2>1. SizeField(l.size, Len(k)) = new
      BY <1>3, <1>14 DEF SizeField
    <2> HIDE DEF k, new
    <2> QED BY <1>3, <2>1 DEF WithHeader
  <1> HIDE DEF b
  <1>17. Completes(M, N, P, b)
    <2>1. b = WithHeader(Top(L), LevelBody(L, Len(L))) /\ M = Complete(Pop(L), Top(L)) /\ N = Pop(L)
          /\ P = Pop(F)
      BY <1>1, <1>16
    <2> HIDE DEF N, M, P, F, L
    <2> QED BY <1>1, <1>2, <1>15, <2>1, MasterCompletes
  <1>18. Overwritten(x, at, new) = h \o (e \o b)
    <2>1. /\ at = Len(p) /\ Len(new) = Len(zero)
          /\ IsSequence(p) /\ IsSequence(zero) /\ IsSequence(new) /\ IsSequence(k)
      BY <1>3, <1>9, <1>10, <1>13
    <2>2. IsSplit(x, p, zero, k) /\ IsSplit(r, p, new, k)
      BY <1>13
    <2> HIDE DEF x, p, zero, k, at, new, r
    <2>3. Overwritten(x, at, new) = r
      BY ONLY <2>1, <2>2, OverwrittenBetween
    <2> QED BY <2>3 DEF r
  <1>19. Emitted(N)[Len(N)] = e
    <2> HIDE DEF F, L
    <2>1. \A i \in 1..(Len(L) - 1) : Pop(L)[i] = L[i] /\ Emitted(Pop(L))[i] = Emitted(L)[i]
      BY <1>1, <1>2, PoppedLevels
    <2>2. Len(N) \in 1..(Len(L) - 1) /\ Len(N) = n - 1
      BY <1>4, <1>5
    <2> QED BY <2>1, <2>2
  <1>20. /\ Len(G) = Len(P) /\ \A i \in 1..Len(P) : SameFrame(G[i], P[i])
         /\ SameElsewhere(P, s, G, z, c)
         /\ BytesIn(G, z, c) = Overwritten(x, at, new)
    <2>1. CASE c = 0
      <3>1. z = Overwritten(s, at, new) /\ G = P
        <4>1. PICK m \in 0..Len(new) :
                /\ z = Overwritten(s, at, SubSeq(new, 1, m)) /\ G = P
                /\ failure' \in IF m < Len(new) THEN {"Patch"} ELSE {"none", "Patch"}
          BY <1>1, <1>7, <2>1 DEF Patch
        <4>2. m = Len(new)
          BY <1>8, <1>10, <4>1
        <4>3. SubSeq(new, 1, Len(new)) = new
          BY <1>10, SubSeqFull DEF IsSequence
        <4> QED BY <4>1, <4>2, <4>3
      <3>2. BytesIn(G, z, c) = Overwritten(x, at, new)
        BY <2>1, <3>1 DEF BytesIn
      <3> HIDE DEF G, P, z, s, c
      <3>3. \A i \in 1..Len(P) : SameFrame(P[i], P[i])
        BY <1>4 DEF FramesOK, SameFrame
      <3>4. SameElsewhere(P, s, G, z, c)
        BY <2>1, <3>1 DEF SameElsewhere, BytesIn
      <3> QED BY <3>1, <3>2, <3>3, <3>4
    <2>2. CASE c # 0
      <3> DEFINE y == Overwritten(x, at, new)
      <3>1. G = [P EXCEPT ![c].buf = Overwritten(@, at, new)] /\ z = s
        BY <1>1, <1>7, <2>2 DEF Patch
      <3>2. x = P[c].buf
        BY <1>4, <2>2 DEF BytesIn
      <3>3. G = Rebuffered(P, c, y)
        BY <3>1, <3>2 DEF Rebuffered
      <3>4. c \in 1..Len(P) /\ Len(P) \in Nat
        BY <1>4, <2>2 DEF TargetIn
      <3>5. IsSequence(x)
        <4>1. IsFrame(P[c])
          BY <1>4, <3>4 DEF FramesOK
        <4> QED BY <3>2, <4>1 DEF IsFrame
      <3>6. IsSequence(y)
        BY <3>5, OverwrittenFacts
      <3> HIDE DEF G, P, z, s, c, y
      <3>7. /\ IsSequence(G) /\ Len(G) = Len(P)
            /\ \A i \in 1..Len(P) : SameFrame(G[i], P[i])
            /\ G[c].buf = y
            /\ \A i \in 1..Len(P) : i # c => G[i] = P[i]
        BY <1>4, <3>3, <3>4, <3>6, RebufferedFrames
      <3>8. BytesIn(G, z, c) = y
        BY <2>2, <3>7 DEF BytesIn
      <3>9. SameElsewhere(P, s, G, z, c)
        BY <3>1, <3>4, <3>7 DEF SameElsewhere, BytesIn
      <3> QED BY <3>7, <3>8, <3>9 DEF y
    <2> QED BY <2>1, <2>2
  <1>21. FramesOK(G, z)
    BY DEF WriterInv
  <1>22. /\ f.kind # "buffered" /\ N = Pop(L) /\ P = Pop(F)
         /\ BytesIn(G, z, c) = Base(d, c) \o (e \o b) /\ e = Emitted(N)[Len(N)]
    BY <1>1, <1>18, <1>19, <1>20
  <1> HIDE DEF F, s, c, L, d, P, M, N, n, e, G, z, x, new, at, h, k, r
  <1>23. DocumentOK(G, z, c, M, d)
    BY <1>1, <1>15, <1>17, <1>20, <1>21, <1>22, EndedDocument
  <1> QED BY <1>1, <1>23 DEF G, z, M, d

\* A patch that fails has overwritten, and a master too large for its size is left.
LEMMA EndReservedLeaves ==
  ASSUME IsSequence(sink), off = Len(sink), EndReserved
  PROVE  /\ off' = Len(sink') /\ failure' \in {"none", "Patch", "SizeOverflow"}
         /\ failure' # "none" => open' = Pop(open)
  <1> DEFINE f == Top(open)
             new == SizeBytes(Pos - f.payloadAt, f.width)
  <1>1. failure = "none" /\ off' = off
    BY DEF EndReserved, Usable
  <1>2. CASE Patch(f, new)
    <2>1. CASE f.target # 0
      BY <1>1, <1>2, <2>1 DEF Patch
    <2>2. CASE f.target = 0
      <3>1. PICK m \in 0..Len(new) :
              /\ sink' = Overwritten(sink, f.sizeAt, SubSeq(new, 1, m)) /\ open' = Pop(open)
              /\ failure' \in IF m < Len(new) THEN {"Patch"} ELSE {"none", "Patch"}
        BY <1>2, <2>2 DEF Patch
      <3>2. Len(sink') = Len(sink)
        BY <3>1, OverwrittenFacts
      <3>3. failure' \in {"none", "Patch"}
        BY <3>1
      <3> QED BY <1>1, <3>1, <3>2, <3>3
    <2> QED BY <2>1, <2>2
  <1>3. CASE ~Patch(f, new)
    BY <1>1, <1>3 DEF EndReserved
  <1> QED BY <1>2, <1>3

-----------------------------------------------------------------------------
(* The document in every state.                                            *)

BooksOK ==
  /\ patchable \in BOOLEAN /\ closed \in BOOLEAN
  /\ start \in StartOffsets /\ off = Len(sink)
  /\ Len(open) <= MaxDepth /\ made \in 0..MaxElements
  /\ failure \in {"none", "Write", "Patch", "SizeOverflow", "SizeRange", "Flush"}

Begun == failure = "Write" => IsPrefix(sink, Payload(start) \o Emitted(said)[Len(said)])

Whole == failure \in {"none", "Flush"} => DocumentOK(open, sink, cur, said, Payload(start))

\* As long as nothing has failed the document is in its targets, whole; after a failed
\* write, a beginning of it is in the sink.
DocInv == WriterInv /\ BooksOK /\ Whole /\ Begun

\* The document of a new Writer is empty.
LEMMA InitDocument == Init => DocInv
  <1> SUFFICES ASSUME Init PROVE DocInv
    OBVIOUS
  <1>1. WriterInv
    BY InitInv
  <1>2. start \in StartOffsets /\ start \in Nat /\ MaxDepth \in Nat /\ MaxElements \in Nat
    BY WriterAssumption DEF Init
  <1> DEFINE d == Payload(start)
             l == [id |-> "document", size |-> Buffered, crcID |-> "none", payload |-> 0,
                   children |-> << >>]
             L == <<l>>
             none == << >>
  <1>3. IsSequence(d) /\ Len(d) = start
    BY <1>2, PayloadSequence
  <1>4. said = L /\ sink = d /\ open = none /\ cur = 0 /\ failure = "none" /\ off = start
    BY DEF Init
  <1>5. IsSequence(none) /\ Len(none) = 0
    BY NothingAdded
  <1>6. BooksOK
    <2>1. patchable \in BOOLEAN /\ closed \in BOOLEAN /\ made = 0
      BY DEF Init
    <2>2. off = Len(sink)
      BY <1>3, <1>4
    <2>3. Len(open) <= MaxDepth /\ made \in 0..MaxElements
      <3> HIDE DEF none
      <3>1. Len(open) = 0
        BY <1>4, <1>5
      <3> QED BY <1>2, <2>1, <3>1
    <2> HIDE DEF none
    <2>4. start \in StartOffsets /\ failure \in {"none", "Write", "Patch", "SizeOverflow", "SizeRange", "Flush"}
      BY <1>2, <1>4
    <2> QED BY <2>1, <2>2, <2>3, <2>4 DEF BooksOK
  <1>7. IsSequence(L) /\ Len(L) = 1 /\ L[1] = l
    <2>1. L = [i \in 1..1 |-> L[i]]
      OBVIOUS
    <2> HIDE DEF l
    <2>2. L = [i \in 1..1 |-> L[i]] /\ L[1] = l
      OBVIOUS
    <2> HIDE DEF L
    <2> QED BY <2>2, FunctionIsSequence
  <1>8. IsLevel(l, MaxDepth + 1)
    BY NoElements DEF IsLevel
  <1>9. l.size.kind = "buffered" /\ l.children = << >>
    BY DEF Buffered
  <1> HIDE DEF l, L
  <1>10. LevelsOK(L, none)
    <2>1. ASSUME NEW k \in 1..Len(L) PROVE IsLevel(L[k], MaxDepth + 2 - k)
      <3>1. k = 1 /\ MaxDepth + 2 - k = MaxDepth + 1
        BY <1>2, <1>7
      <3> QED BY <1>7, <1>8, <3>1
    <2> QED BY <1>2, <1>5, <1>7, <2>1 DEF LevelsOK
  <1>11. Emitted(L)[1] = << >>
    <2>1. Completed(L, 1) = << >>
      BY <1>7, <1>9, NoElements DEF Completed
    <2>2. Emitted(L)[1] = Completed(L, 1)
      BY <1>7, <1>9, EmittedIs
    <2> QED BY <2>1, <2>2
  <1>12. Holds(none, d, 0, L, Len(L), d)
    <2>1. d \o << >> = d
      BY <1>3, NothingAdded
    <2> QED BY <1>7, <1>11, <2>1 DEF Holds, BytesIn, Base
  <1>13. FramesOK(none, d) /\ TargetIn(none, 0, Len(none))
    BY <1>1, <1>4 DEF WriterInv
  <1>14. DocumentOK(none, d, 0, L, d)
    BY <1>3, <1>5, <1>10, <1>12, <1>13 DEF DocumentOK
  <1> QED BY <1>1, <1>4, <1>6, <1>14 DEF DocInv, Whole, Begun

\* The levels of a document are one more than its frames, of which no more are open than
\* may be.
LEMMA DocumentDepth ==
  ASSUME NEW F, NEW s, NEW c, NEW L, NEW d, DocumentOK(F, s, c, L, d)
  PROVE  /\ Len(F) <= MaxDepth /\ Len(L) = Len(F) + 1 /\ Len(F) \in Nat
         /\ IsSequence(s) /\ IsSequence(F)
  BY SequenceFacts DEF DocumentOK, LevelsOK, FramesOK

\* A call that writes keeps the invariant.
LEMMA LeavesDocument ==
  ASSUME DocInv, WriterInv', UNCHANGED <<patchable, start, closed>>,
         Leaves(cur', said', Payload(start)), made' \in 0..MaxElements,
         failure' = "Write" => Len(open') <= MaxDepth
  PROVE  DocInv'
  <1>1. failure' = "none" => DocumentOK(open', sink', cur', said', Payload(start))
    BY DEF Leaves
  <1>2. failure' = "none" => Len(open') <= MaxDepth
    BY <1>1, DocumentDepth
  <1>3. /\ failure' \in {"none", "Write"} /\ off' = Len(sink')
        /\ failure' = "Write" => IsPrefix(sink', Payload(start) \o Emitted(said')[Len(said')])
    BY DEF Leaves
  <1>4. Whole'
    <2>1. start' = start
      OBVIOUS
    <2> QED BY <1>1, <1>3, <2>1 DEF Whole
  <1>5. Begun'
    <2>1. start' = start
      OBVIOUS
    <2> QED BY <1>3, <2>1, Zenon DEF Begun
  <1>6. BooksOK'
    BY <1>2, <1>3 DEF DocInv, BooksOK
  <1> QED BY <1>4, <1>5, <1>6 DEF DocInv

\* The invariant is inductive: no call but those that fail leaves anything but the
\* document.
LEMMA NextDocument == ASSUME DocInv, [Next]_vars PROVE DocInv'
  <1>1. WriterInv /\ WriterInv'
    BY NextInv DEF DocInv
  <1>2. CASE UNCHANGED vars
    BY <1>2 DEF vars, DocInv, WriterInv, BooksOK, Whole, Begun
  <1>3. ASSUME Usable
        PROVE  /\ failure = "none" /\ DocumentOK(open, sink, cur, said, Payload(start))
               /\ off = Len(sink) /\ made \in 0..MaxElements /\ Len(open) <= MaxDepth
               /\ IsSequence(sink) /\ IsSequence(open) /\ MaxElements \in Nat
    <2>1. DocumentOK(open, sink, cur, said, Payload(start))
      BY <1>3 DEF DocInv, Whole, Usable
    <2> QED BY <1>3, <2>1, DocumentDepth, WriterAssumption DEF DocInv, BooksOK, Usable
  <1>4. ASSUME NEW id \in ElementID, NEW size \in Sizes, NEW crcID \in ElementID \cup {"none"},
               StartMaster(id, size, crcID)
        PROVE  DocInv'
    <2>1. Usable /\ made' \in 0..MaxElements /\ UNCHANGED <<patchable, start, closed>>
      BY <1>3, <1>4 DEF StartMaster
    <2>2. /\ Leaves(cur', said', Payload(start))
          /\ failure' # "none" => open' = open
      BY <1>1, <1>3, <1>4, <2>1, StartDocument
    <2>3. failure' = "Write" => Len(open') <= MaxDepth
      BY <1>3, <2>1, <2>2
    <2> QED BY <1>1, <2>1, <2>2, <2>3, LeavesDocument
  <1>5. ASSUME NEW id \in ElementID, NEW n \in PayloadSizes, NEW size \in Sizes,
               LeafWith(id, n, size)
        PROVE  DocInv'
    <2>1. Usable /\ made' \in 0..MaxElements /\ UNCHANGED <<patchable, start, closed>> /\ cur' = cur
      BY <1>3, <1>5 DEF LeafWith
    <2>2. Leaves(cur', said', Payload(start))
      BY <1>3, <1>5, <2>1, LeafDocument
    <2>3. failure' = "Write" => Len(open') <= MaxDepth
      <3>1. failure' = "Write" => open' = open
        <4> DEFINE b == EncodeID(id) \o SizeBytes(n, IF size.kind = "reserved" THEN size.width
                                                     ELSE SizeWidth(n)) \o Payload(n)
        <4>1. WriteAll(cur, b, open, open)
          BY <1>5 DEF LeafWith
        <4> HIDE DEF b
        <4> QED BY <1>3, <2>1, <4>1 DEF WriteAll
      <3> QED BY <1>3, <2>1, <3>1
    <2> QED BY <1>1, <2>1, <2>2, <2>3, LeavesDocument
  <1>6. ASSUME open # << >>, IsSequence(open), Len(open) <= MaxDepth
        PROVE  Len(Pop(open)) <= MaxDepth
    BY <1>6, Popped, WriterAssumption
  <1>7. CASE EndBuffered
    <2>1. /\ Usable /\ made' = made /\ UNCHANGED <<patchable, start, closed>> /\ open # << >>
      BY <1>7 DEF EndBuffered
    <2>2. CASE Len(Body(Top(open))) > MaxKnownSize
      <3>1. failure' = "SizeRange" /\ open' = Pop(open) /\ sink' = sink /\ off' = off
        BY <1>7, <2>2 DEF EndBuffered
      <3>2. BooksOK'
        BY <1>3, <1>6, <2>1, <3>1 DEF BooksOK, DocInv
      <3> QED BY <1>1, <3>1, <3>2 DEF DocInv, Whole, Begun
    <2>3. CASE ~(Len(Body(Top(open))) > MaxKnownSize)
      <3>1. Leaves(cur', said', Payload(start))
        BY <1>3, <1>7, <2>1, <2>3, EndBufferedDocument
      <3>2. failure' = "Write" => Len(open') <= MaxDepth
        <4> DEFINE f == Top(open)
                   b == EncodeID(f.id) \o EncodeSize(Len(Body(f))) \o Body(f)
        <4>1. WriteAll(f.prev, b, Pop(open), Pop(open))
          BY <1>7, <2>3 DEF EndBuffered
        <4> HIDE DEF b, f
        <4>2. failure' = "Write" => open' = Pop(open)
          BY <1>3, <2>1, <4>1 DEF WriteAll
        <4> QED BY <1>3, <1>6, <2>1, <4>2
      <3>3. made' \in 0..MaxElements
        BY <1>3, <2>1
      <3> QED BY <1>1, <2>1, <3>1, <3>2, <3>3, LeavesDocument
    <2> QED BY <2>2, <2>3
  <1>8. CASE EndReserved
    <2>1. Usable /\ made' = made /\ UNCHANGED <<patchable, start, closed>> /\ open # << >>
      BY <1>8 DEF EndReserved
    <2>2. /\ off' = Len(sink') /\ failure' \in {"none", "Patch", "SizeOverflow"}
          /\ failure' # "none" => open' = Pop(open)
      BY <1>3, <1>8, <2>1, EndReservedLeaves
    <2>3. failure' = "none" => DocumentOK(open', sink', cur', said', Payload(start))
      BY <1>1, <1>3, <1>8, <2>1, EndReservedDocument
    <2>4. Len(open') <= MaxDepth
      <3>1. CASE failure' = "none"
        BY <2>3, <3>1, DocumentDepth
      <3>2. CASE failure' # "none"
        BY <1>3, <1>6, <2>1, <2>2, <3>2
      <3> QED BY <3>1, <3>2
    <2>5. BooksOK'
      BY <1>3, <2>1, <2>2, <2>4 DEF BooksOK, DocInv
    <2>6. Whole' /\ Begun'
      BY <2>1, <2>2, <2>3 DEF Whole, Begun
    <2> QED BY <1>1, <2>5, <2>6 DEF DocInv
  <1>9. CASE EndUnknown
    <2>1. /\ Usable /\ made' = made /\ UNCHANGED <<patchable, start, closed, sink, off>>
          /\ failure' = "none"
      BY <1>9 DEF EndUnknown, Usable
    <2>2. DocumentOK(open', sink', cur', said', Payload(start))
      BY <1>3, <1>9, <2>1, EndUnknownDocument
    <2>3. BooksOK'
      BY <1>3, <2>1, <2>2, DocumentDepth DEF BooksOK, DocInv
    <2> QED BY <1>1, <2>1, <2>2, <2>3 DEF DocInv, Whole, Begun
  <1>10. CASE Flush \/ Close
    <2>1. /\ Usable /\ UNCHANGED <<sink, patchable, start, off, cur, open, said, made>>
          /\ failure' \in {"none", "Flush"} /\ closed' \in BOOLEAN
      BY <1>10 DEF Flush, Close, DocInv, BooksOK
    <2>2. BooksOK'
      BY <2>1 DEF BooksOK, DocInv
    <2>3. Whole' /\ Begun'
      BY <1>3, <2>1 DEF Whole, Begun
    <2> QED BY <1>1, <2>2, <2>3 DEF DocInv
  <1> QED BY <1>2, <1>4, <1>5, <1>7, <1>8, <1>9, <1>10
          DEF Next, CallAfterEnd, StartRefused, LeafRefused, EndRefused, FlushRefused

\* There is one current target.
LEMMA OneTarget ==
  ASSUME NEW F, NEW k \in Nat, NEW t, NEW u, TargetIn(F, t, k), TargetIn(F, u, k)
  PROVE  t = u
  <1>1. t \in 0..k /\ u \in 0..k
    BY DEF TargetIn
  <1>2. ~(t < u)
    BY <1>1 DEF TargetIn
  <1>3. ~(u < t)
    BY <1>1 DEF TargetIn
  <1> QED BY <1>1, <1>2, <1>3

\* The invariant, read place by place, is the property.
LEMMA DocumentImplies == DocInv => SinkInv
  <1> SUFFICES ASSUME DocInv PROVE SinkInv
    OBVIOUS
  <1>1. BooksOK /\ Whole /\ Begun
    BY DEF DocInv
  <1>2. ASSUME failure = "none" PROVE Len(said) = Len(open) + 1 /\ IsTargetAt(cur, Len(open))
    <2>1. DocumentOK(open, sink, cur, said, Payload(start))
      BY <1>1, <1>2 DEF Whole
    <2>2. TargetIn(open, cur, Len(open))
      BY <2>1 DEF DocumentOK
    <2> QED BY <2>1, <2>2, DocumentDepth DEF TargetIn, IsTargetAt
  <1>3. WTypeOK
    BY <1>1, <1>2 DEF WTypeOK, BooksOK
  <1>4. failure = "Write" => IsPrefix(sink, Before(0) \o Emitted(said)[Len(said)])
    <2>1. Before(0) = Payload(start)
      BY DEF Before
    <2> QED BY <1>1, <2>1 DEF Begun
  <1>5. ASSUME failure \in {"none", "Flush"}, NEW k \in DOMAIN said, NEW t \in 0..(k - 1),
               IsTargetAt(t, k - 1), k = Len(said) \/ said[k + 1].size.kind = "buffered"
        PROVE  Bytes(t) = Before(t) \o Emitted(said)[k]
    <2> DEFINE d == Payload(start)
    <2>1. DocumentOK(open, sink, cur, said, d)
      BY <1>1, <1>5 DEF Whole
    <2>2. /\ TargetIn(open, cur, Len(open)) /\ LevelsOK(said, open) /\ FramesOK(open, sink)
          /\ \A i \in 1..Len(open) : FrameHolds(open, sink, said, i, d)
          /\ Holds(open, sink, cur, said, Len(said), d)
          /\ Len(open) \in Nat /\ Len(said) = Len(open) + 1
      BY <2>1, DocumentDepth DEF DocumentOK
    <2>3. k \in 1..(Len(open) + 1)
      BY <2>2, SequenceFacts DEF LevelsOK
    <2>4. TargetIn(open, t, k - 1) /\ k - 1 \in Nat
      BY <1>5, <2>3 DEF IsTargetAt, TargetIn
    <2>5. Bytes(t) = BytesIn(open, sink, t) /\ Before(t) = Base(d, t)
      BY DEF Bytes, BytesIn, Before, Base
    <2> HIDE DEF d
    <2>6. CASE k = Len(said)
      <3>1. k - 1 = Len(open)
        BY <2>2, <2>6
      <3>2. t = cur
        BY <2>2, <2>4, <3>1, OneTarget
      <3> QED BY <2>2, <2>5, <2>6, <3>2 DEF Holds
    <2>7. CASE k # Len(said)
      <3>1. k \in 1..Len(open)
        BY <2>2, <2>3, <2>7
      <3>2. open[k].kind = "buffered"
        BY <1>5, <2>2, <2>7, <3>1 DEF LevelsOK, IsOpened
      <3>3. TargetIn(open, open[k].prev, k - 1) /\ Holds(open, sink, open[k].prev, said, k, d)
        BY <2>2, <3>1, <3>2 DEF FramesOK, FrameHolds
      <3>4. t = open[k].prev
        BY <2>4, <3>3, OneTarget
      <3> QED BY <2>5, <3>3, <3>4 DEF Holds
    <2> QED BY <2>6, <2>7
  <1>6. SinkIsDocument
    BY <1>4, <1>5 DEF SinkIsDocument
  <1> QED BY <1>3, <1>6 DEF SinkInv

\* As long as no write has failed, the sink and the open masters' buffers hold the document
\* that was said, byte for byte; a sink that failed holds a beginning of it.
THEOREM SinkHoldsTheDocument == Spec => []SinkInv
  <1>1. Init => DocInv
    BY InitDocument
  <1>2. DocInv /\ [Next]_vars => DocInv'
    BY NextDocument
  <1>3. DocInv => SinkInv
    BY DocumentImplies
  <1> QED BY <1>1, <1>2, <1>3, PTL DEF Spec

=============================================================================
