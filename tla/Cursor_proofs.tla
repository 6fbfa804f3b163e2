--------------------------- MODULE Cursor_proofs ---------------------------
(***************************************************************************)
(* The cursor's invariant, for every set of documents, classifier and      *)
(* boundary rule.  Cursor.tla names the parts of the invariant.            *)
(*                                                                         *)
(* Then that what the cursor reports is what the recursive descent of      *)
(* CursorReference says of the whole input.  The invariant looks ahead: for *)
(* every decision still to be taken and every end the input may still have, *)
(* the descent, carried on from where the cursor stands, says all that the *)
(* whole input says.                                                       *)
(***************************************************************************)
EXTENDS CursorReference, Facts_proofs

-----------------------------------------------------------------------------
(* Facts about stacks.                                                     *)

\* A non-empty stack has a top and what is below it.
LEMMA PopFacts ==
  ASSUME NEW S, NEW s \in Seq(S), s # << >>
  PROVE  /\ Top(s) \in S
         /\ Pop(s) \in Seq(S)
         /\ Len(Pop(s)) = Len(s) - 1
         /\ \A i \in 1..(Len(s) - 1) : Pop(s)[i] = s[i]
         /\ Len(s) \in 1..Len(s)
  <1>1. Len(s) \in Nat /\ Len(s) # 0
    BY EmptySeq, LenProperties
  <1>. DEFINE n == Len(s) - 1
  <1>2. n \in Nat /\ \A i \in 1..n : s[i] \in S
    BY <1>1, ElementOfSeq
  <1>3. /\ SubSeq(s, 1, n) \in Seq(S)
        /\ Len(SubSeq(s, 1, n)) = IF 1 <= n THEN n - 1 + 1 ELSE 0
        /\ \A i \in 1..(n - 1 + 1) : SubSeq(s, 1, n)[i] = s[1 + i - 1]
    BY <1>2, SubSeqProperties
  <1>4. Top(s) \in S
    BY <1>1, ElementOfSeq DEF Top
  <1>. HIDE DEF n
  <1>5. n - 1 + 1 = n /\ \A i \in 1..n : 1 + i - 1 = i
    BY <1>2
  <1>6. Len(SubSeq(s, 1, n)) = n /\ \A i \in 1..n : SubSeq(s, 1, n)[i] = s[i]
    BY <1>2, <1>3, <1>5
  <1>. QED BY <1>1, <1>3, <1>4, <1>6 DEF n, Pop

\* Two stacks with the same masters still have them after both are popped.
LEMMA PopKeepsMasters ==
  ASSUME NEW o \in Seq(OpenMaster), NEW s \in Seq(Frame), SameMasters(o, s), s # << >>
  PROVE  /\ o # << >>
         /\ SameMasters(Pop(o), Pop(s))
         /\ Pop(o) \in Seq(OpenMaster) /\ Pop(s) \in Seq(Frame)
         /\ Top(o).id = Top(s).id
         /\ Top(o).size = UnknownSize <=> Top(s).end = UnknownSize
  <1>1. o # << >> /\ Len(o) = Len(s) /\ Len(s) \in Nat /\ Len(s) # 0
    BY EmptySeq, LenProperties DEF SameMasters
  <1>2. /\ Pop(o) \in Seq(OpenMaster) /\ Len(Pop(o)) = Len(o) - 1
        /\ \A i \in 1..(Len(o) - 1) : Pop(o)[i] = o[i]
    BY <1>1, PopFacts
  <1>3. /\ Pop(s) \in Seq(Frame) /\ Len(Pop(s)) = Len(s) - 1
        /\ \A i \in 1..(Len(s) - 1) : Pop(s)[i] = s[i]
    BY PopFacts
  <1>4. SameMasters(Pop(o), Pop(s))
    <2>1. Len(Pop(o)) = Len(Pop(s))
      BY <1>1, <1>2, <1>3
    <2>2. ASSUME NEW i \in 1..Len(Pop(o))
          PROVE  /\ Pop(o)[i].id = Pop(s)[i].id
                 /\ Pop(o)[i].size = UnknownSize <=> Pop(s)[i].end = UnknownSize
      <3>1. i \in 1..(Len(o) - 1) /\ i \in 1..(Len(s) - 1) /\ i \in 1..Len(o)
        BY <1>1, <1>2
      <3>2. Pop(o)[i] = o[i] /\ Pop(s)[i] = s[i]
        BY <1>2, <1>3, <3>1
      <3>. QED BY <3>1, <3>2 DEF SameMasters
    <2>. QED BY <2>1, <2>2 DEF SameMasters
  <1>5. Len(o) \in 1..Len(o)
    BY <1>1
  <1>. QED BY <1>1, <1>2, <1>3, <1>4, <1>5 DEF SameMasters, Top

\* ... and after both are pushed.
LEMMA PushKeepsMasters ==
  ASSUME NEW o \in Seq(OpenMaster), NEW s \in Seq(Frame), SameMasters(o, s),
         NEW om \in OpenMaster, NEW f \in Frame,
         om.id = f.id, om.size = UnknownSize <=> f.end = UnknownSize
  PROVE  SameMasters(Append(o, om), Append(s, f))
  BY DEF SameMasters

\* A list that closes every master of o names its top first, and what is left
\* of it closes what is left of o.
LEMMA DequeueKeepsClosing ==
  ASSUME NEW o \in Seq(OpenMaster), NEW cs \in Seq([id : ElementID, end : Nat]),
         ClosesAll(cs, o), cs # << >>
  PROVE  /\ o # << >>
         /\ Top(o).id = Head(cs).id
         /\ Head(cs).end \in Nat
         /\ ClosesAll(Tail(cs), Pop(o))
         /\ Tail(cs) \in Seq([id : ElementID, end : Nat])
         /\ Pop(o) \in Seq(OpenMaster)
  <1>1. Len(o) = Len(cs) /\ Len(o) \in Nat /\ Len(o) # 0 /\ o # << >>
    BY EmptySeq, LenProperties DEF ClosesAll
  <1>2. /\ Pop(o) \in Seq(OpenMaster) /\ Len(Pop(o)) = Len(o) - 1
        /\ \A i \in 1..(Len(o) - 1) : Pop(o)[i] = o[i]
    BY <1>1, PopFacts
  <1>3. /\ Head(cs) \in [id : ElementID, end : Nat] /\ Head(cs) = cs[1]
        /\ Tail(cs) \in Seq([id : ElementID, end : Nat])
        /\ Len(Tail(cs)) = Len(cs) - 1
        /\ \A i \in 1..Len(Tail(cs)) : Tail(cs)[i] = cs[i + 1]
    <2>1. Head(cs) = cs[1]
      OBVIOUS
    <2>. QED BY <2>1, HeadTailProperties
  <1>4. Top(o).id = Head(cs).id
    BY <1>1, <1>3 DEF ClosesAll, Top
  <1>5. ASSUME NEW i \in 1..Len(Pop(o))
        PROVE  Tail(cs)[i].id = Pop(o)[Len(Pop(o)) + 1 - i].id
    <2>1. i + 1 \in 1..Len(o) /\ i \in 1..Len(Tail(cs)) /\ Len(o) - i \in 1..(Len(o) - 1)
          /\ Len(o) + 1 - (i + 1) = Len(o) - i /\ Len(Pop(o)) + 1 - i = Len(o) - i
      BY <1>1, <1>2, <1>3
    <2>2. cs[i + 1].id = o[Len(o) + 1 - (i + 1)].id
      BY <2>1 DEF ClosesAll
    <2>. QED BY <1>2, <1>3, <2>1, <2>2
  <1>6. Len(Tail(cs)) = Len(Pop(o))
    BY <1>1, <1>2, <1>3
  <1>. QED BY <1>1, <1>2, <1>3, <1>4, <1>5, <1>6 DEF ClosesAll

-----------------------------------------------------------------------------
(* Facts about the parser's operations.                                    *)

\* A parser between elements.
Quiet(q) == q \in ParserState /\ ~HasCurrent(q) /\ q.pos <= q.fed

\* No current element is a value of its type.
LEMMA NoElementType == NoElement \in ElementCtx
  BY DEF NoElement, ElementCtx, Extent, UnknownSize

\* Stepping over a payload that is there leaves the parser between elements.
LEMMA StepOverQuiet ==
  ASSUME NEW q \in ParserState, q.current.size \in Nat, q.current.size <= q.fed - q.pos
  PROVE  /\ Quiet(StepOver(q))
         /\ StepOver(q).fed = q.fed
         /\ StepOver(q).stack = q.stack
  <1>1. q.pos \in Nat /\ q.fed \in Nat /\ q.stack \in Seq(Frame)
    BY DEF ParserState
  <1>. DEFINE pos == q.pos + q.current.size
  <1>2. pos \in Nat /\ pos <= q.fed
    BY <1>1
  <1>3. StepOver(q) = [fed |-> q.fed, pos |-> pos, stack |-> q.stack, current |-> NoElement]
    BY DEF StepOver, At
  <1>. HIDE DEF pos
  <1>. QED BY <1>1, <1>2, <1>3, NoElementType DEF Quiet, ParserState, HasCurrent, NoElement

\* When the header's VINTs are complete the header is one the document encodes,
\* and all its bytes are there.
LEMMA CompleteHeader ==
  ASSUME NEW d \in DOMAIN Documents, NEW o \in Nat, NEW avail \in Nat,
         VINTResult(HeaderAt(d, o), avail) = "ok"
  PROVE  /\ HeaderAt(d, o) \in Header
         /\ HeaderLen(HeaderAt(d, o)) \in 1..avail
  <1>1. HeaderAt(d, o) \in Header
    BY Assumption DEF DocumentsAssumption, VINTResult, HeaderAt
  <1>2. HeaderAt(d, o).idLen \in 0..4 /\ HeaderAt(d, o).sizeLen \in 0..8
    BY <1>1 DEF Header
  <1>. QED BY <1>1, <1>2 DEF VINTResult, HeaderLen

\* What Peek can answer between elements.
LEMMA PeekAnswers ==
  ASSUME NEW d \in DOMAIN Documents, NEW q, Quiet(q)
  PROVE  /\ PeekResult(d, q) \in {"ok", "EndMaster", "NeedMoreData"} \cup Malformed
         /\ PeekResult(d, q) = "EndMaster" <=> AtMasterEnd(q)
         /\ PeekResult(d, q) = "ok" =>
              /\ HeaderAt(d, q.pos) \in Header
              /\ HeaderLen(HeaderAt(d, q.pos)) \in 1..(q.fed - q.pos)
              /\ HeaderAt(d, q.pos).size = UnknownSize =>
                   KindOf[HeaderAt(d, q.pos).id] = "master"
         /\ PeekResult(d, q) = "NeedMoreData" => ~AtMasterEnd(q)
  <1>1. q.pos \in Nat /\ q.fed \in Nat /\ q.fed - q.pos \in Nat
    BY DEF Quiet, ParserState
  <1>2. VINTResult(HeaderAt(d, q.pos), Available(q)) \in {"ok", "NeedMoreData", "VINTLength"}
    BY DEF VINTResult
  <1>3. HeaderResult(d, q) \in {"ok", "NeedMoreData"} \cup Malformed
    BY <1>2 DEF HeaderResult, HeaderOutcome, Malformed
  <1>4. PeekResult(d, q) = IF AtMasterEnd(q) THEN "EndMaster" ELSE HeaderResult(d, q)
    BY DEF PeekResult, Quiet
  <1>5. ASSUME HeaderResult(d, q) = "ok"
        PROVE  /\ VINTResult(HeaderAt(d, q.pos), Available(q)) = "ok"
               /\ HeaderAt(d, q.pos).size = UnknownSize =>
                    KindOf[HeaderAt(d, q.pos).id] = "master"
    BY <1>5 DEF HeaderResult, HeaderOutcome
  <1>. QED BY <1>1, <1>3, <1>4, <1>5, CompleteHeader DEF Available, Malformed

\* Where the input ends with nothing more to read, FinalizeEOF fails only as an
\* incomplete input does, and succeeds only when every byte was consumed.
LEMMA EndOfInputAnswers ==
  ASSUME NEW d \in DOMAIN Documents, NEW q, Quiet(q), PeekResult(d, q) = "NeedMoreData"
  PROVE  /\ FinalizeEOFResult(d, q) \in {"ok"} \cup Incomplete
         /\ FinalizeEOFResult(d, q) = "ok" => q.pos = q.fed
         /\ q.pos < q.fed => FinalizeEOFResult(d, q) = "TruncatedHeader"
         /\ q.pos = q.fed => FinalizeEOFResult(d, q) =
              IF \E i \in 1..Len(q.stack) : q.stack[i].end # UnknownSize /\ q.pos < q.stack[i].end
              THEN "UnfinishedMaster" ELSE "ok"
  <1>1. q.pos \in Nat /\ q.fed \in Nat /\ q.pos <= q.fed /\ q.stack \in Seq(Frame)
    BY DEF Quiet, ParserState
  <1>2. ~AtMasterEnd(q)
    BY PeekAnswers
  <1>3. AfterReachedEnds(q) = q
    <2>. DEFINE Kept(k) == /\ \A i \in (k + 1)..Len(q.stack) : EndReached(q, q.stack[i])
                           /\ k = 0 \/ ~EndReached(q, q.stack[k])
    <2>1. Len(q.stack) \in Nat
      BY <1>1, LenProperties
    <2>2. Kept(Len(q.stack))
      BY <1>2, <2>1, EmptySeq, <1>1 DEF AtMasterEnd, EndReached, Top
    <2>3. ASSUME NEW k \in 0..Len(q.stack), Kept(k)
          PROVE  k = Len(q.stack)
      <3>1. ASSUME k < Len(q.stack)
            PROVE  FALSE
        <4>1. Len(q.stack) \in (k + 1)..Len(q.stack)
          BY <2>1, <3>1
        <4>2. EndReached(q, q.stack[Len(q.stack)])
          BY <2>3, <4>1
        <4>. QED BY <2>1, <2>2, <3>1, <4>2
      <3>. QED BY <2>1, <3>1
    <2>. HIDE DEF Kept
    <2>4. (CHOOSE k \in 0..Len(q.stack) : Kept(k)) = Len(q.stack)
      BY <2>1, <2>2, <2>3
    <2>5. SubSeq(q.stack, 1, Len(q.stack)) = q.stack
      BY <1>1, SubSeqFull
    <2>6. At(q, q.pos, q.stack, q.current) = q
      BY DEF Quiet, ParserState, At
    <2>. QED BY <2>4, <2>5, <2>6 DEF AfterReachedEnds, Kept
  <1>4. ~ShortPayload(q)
    BY DEF ShortPayload, Quiet
  <1>5. LeftoverResult(d, q) \in {"ok", "TruncatedHeader"}
        /\ (LeftoverResult(d, q) = "ok" <=> ~(Available(q) > 0))
    BY <1>3 DEF LeftoverResult, Quiet
  <1>. QED BY <1>1, <1>4, <1>5 DEF FinalizeEOFResult, Incomplete, Available

\* The list FinalizeEOF returns closes the masters of a stack that mirrors its own.
LEMMA ClosedMastersClose ==
  ASSUME NEW q, Quiet(q), NEW o \in Seq(OpenMaster), SameMasters(o, q.stack)
  PROVE  /\ ClosedMasters(q) \in Seq([id : ElementID, end : Nat])
         /\ ClosesAll(ClosedMasters(q), o)
         /\ ClosedMasters(q) = << >> => o = << >>
  <1>1. q.stack \in Seq(Frame) /\ q.pos \in Nat /\ Len(q.stack) \in Nat
    BY LenProperties DEF Quiet, ParserState
  <1>2. \A i \in 1..Len(q.stack) : Len(q.stack) + 1 - i \in 1..Len(q.stack)
    BY <1>1
  <1>3. \A i \in 1..Len(q.stack) : q.stack[Len(q.stack) + 1 - i] \in Frame
    BY <1>1, <1>2, ElementOfSeq
  <1>4. \A i \in 1..Len(q.stack) :
          [id |-> q.stack[Len(q.stack) + 1 - i].id, end |-> q.pos] \in [id : ElementID, end : Nat]
    BY <1>1, <1>3 DEF Frame
  <1>5. ClosedMasters(q) \in Seq([id : ElementID, end : Nat]) /\ Len(ClosedMasters(q)) = Len(q.stack)
    BY <1>1, <1>4 DEF ClosedMasters
  <1>6. Len(o) = Len(q.stack)
    BY DEF SameMasters
  <1>7. ClosesAll(ClosedMasters(q), o)
    BY <1>1, <1>2, <1>5, <1>6 DEF ClosesAll, ClosedMasters, SameMasters
  <1>8. ClosedMasters(q) = << >> => o = << >>
    BY <1>5, <1>6, EmptySeq
  <1>. QED BY <1>5, <1>7, <1>8

-----------------------------------------------------------------------------
(* Facts about events and about carrying out a decision.                   *)

\* A failure and the end of the input are events.
LEMMA OutcomeTypes ==
  /\ \A why \in StreamErrors : Outcome("fail", why) \in Event
  /\ Outcome("eof", "none") \in Event
  BY DEF Outcome, Event, Extent, StreamErrors, CloseReason

\* The end of a master is an event.
LEMMA EndNodeType ==
  ASSUME NEW om \in OpenMaster, NEW depth \in Nat, NEW end \in Nat,
         NEW why \in CloseReason
  PROVE  EndNode(om, depth, end, why) \in Event
  BY DEF EndNode, Event, OpenMaster, Extent

\* A node for a header is an event.
LEMMA ElementNodeType ==
  ASSUME NEW kind \in {"master", "leaf"}, NEW h \in Header, NEW o \in Nat, NEW depth \in Nat
  PROVE  ElementNode(kind, h, o, depth) \in Event
  <1>1. HeaderLen(h) \in Nat /\ h.size \in Extent /\ h.id \in ElementID
    BY DEF Header, HeaderLen, Extent
  <1>2. EndOf(h, o) \in Extent
    BY <1>1 DEF EndOf, Extent
  <1>. QED BY <1>1, <1>2 DEF ElementNode, Event, CloseReason

\* Appending any event but the end of input does not make one appear.
LEMMA AppendEvent ==
  ASSUME NEW s \in Seq(Event), NEW e \in Event
  PROVE  /\ Append(s, e) \in Seq(Event)
         /\ (e.ev # "eof" /\ ~(\E i \in 1..Len(s) : s[i].ev = "eof"))
              => ~(\E i \in 1..Len(Append(s, e)) : Append(s, e)[i].ev = "eof")
  OBVIOUS

\* No call of the parser fails without a reason.
LEMMA ReasonsAreGiven ==
  ASSUME NEW q
  PROVE  /\ PeekResult(doc, q) # "none" /\ FinalizeEOFResult(doc, q) # "none"
         /\ LeaveMasterResult(q) # "none" /\ CloseMasterResult(q) # "none"
  <1>1. \A r : PeekResult(doc, r) # "none"
    BY DEF PeekResult, HeaderResult, HeaderOutcome, VINTResult
  <1>2. FinalizeEOFResult(doc, q) # "none"
    BY <1>1 DEF FinalizeEOFResult, LeftoverResult
  <1>3. LeaveMasterResult(q) # "none" /\ CloseMasterResult(q) # "none"
    BY DEF LeaveMasterResult, CloseMasterResult
  <1> QED BY <1>1, <1>2, <1>3

LEMMA ResolvingHasReasons == ResolveResult # "none"
  BY DEF ResolveResult, EnterMasterResult, SkipPayloadResult, PayloadResult

\* A healthy cursor's decision can be carried out, has to wait for bytes, or asks
\* to skip a master without an end.  Carried out, it leaves the parser between
\* elements and the two stacks alike.
LEMMA Resolving ==
  ASSUME CursorInv, err = "none"
  PROVE  /\ ResolveResult \in {"ok", "NeedMoreData", "SkipUnknownSize"}
         /\ ResolveResult = "ok" =>
              /\ Quiet(ResolvedParser)
              /\ ResolvedParser.fed = p.fed
              /\ ResolvedOpen \in Seq(OpenMaster)
              /\ ~eofRun => SameMasters(ResolvedOpen, ResolvedParser.stack) /\ closes = << >>
              /\ eofRun => ResolvedParser = p /\ ResolvedOpen = open
         /\ ResolveResult = "NeedMoreData" => ShortPayload(p) /\ ~eofRun
  <1>. USE DEF CursorInv
  <1>1. /\ p \in ParserState /\ p.pos \in Nat /\ p.fed \in Nat /\ p.pos <= p.fed
        /\ p.stack \in Seq(Frame) /\ p.current \in ElementCtx
        /\ open \in Seq(OpenMaster) /\ (pending = "master" => pendOpen \in OpenMaster)
    BY DEF TypeOK, WithinInput, ParserState
  <1>2. CASE pending = "none"
    <2>1. ResolveResult = "ok" /\ ResolvedParser = p /\ ResolvedOpen = open
      BY <1>2 DEF ResolveResult, ResolvedParser, ResolvedOpen
    <2>2. ~HasCurrent(p)
      BY <1>2 DEF PendingMatches
    <2>. QED BY <1>1, <2>1, <2>2 DEF Quiet, StackMirror
  <1>3. CASE pending = "master" /\ decision = "skipSubtree"
    <2>1. ~eofRun /\ p.current.kind = "master" /\ p.current.size = pendOpen.size
      BY <1>3 DEF PendingMatches
    <2>2. HasCurrent(p)
      BY <2>1 DEF HasCurrent
    <2>3. ResolveResult = IF pendOpen.size = UnknownSize THEN "SkipUnknownSize" ELSE PayloadResult(p)
      BY <1>3 DEF ResolveResult
    <2>4. pendOpen.size # UnknownSize => p.current.size \in Nat
      BY <2>1, <1>1, <1>3 DEF OpenMaster, Extent
    <2>5. ResolveResult \in {"ok", "NeedMoreData", "SkipUnknownSize"}
          /\ (ResolveResult = "NeedMoreData" => ShortPayload(p))
      BY <1>1, <2>1, <2>2, <2>3, <2>4 DEF PayloadResult, ShortPayload, Available
    <2>6. ASSUME ResolveResult = "ok"
          PROVE  /\ Quiet(ResolvedParser) /\ ResolvedParser.fed = p.fed
                 /\ ResolvedParser.stack = p.stack
      <3>1. ResolvedParser = StepOver(p)
        BY <1>3 DEF ResolvedParser
      <3>2. p.current.size \in Nat /\ p.current.size <= p.fed - p.pos
        BY <1>1, <2>1, <2>2, <2>3, <2>4, <2>6 DEF PayloadResult, Available
      <3>. QED BY <1>1, <3>1, <3>2, StepOverQuiet
    <2>7. ResolvedOpen = open
      BY <1>3 DEF ResolvedOpen
    <2>. QED BY <1>1, <2>1, <2>5, <2>6, <2>7 DEF StackMirror
  <1>4. CASE pending = "master" /\ decision # "skipSubtree"
    <2>1. /\ ~eofRun /\ p.current.kind = "master" /\ p.current.size = pendOpen.size
          /\ p.current.id = pendOpen.id
      BY <1>4 DEF PendingMatches
    <2>2. ResolveResult = "ok" /\ ResolvedParser = EnterMaster(p)
          /\ ResolvedOpen = Append(open, pendOpen)
      BY <1>4, <2>1 DEF ResolveResult, ResolvedParser, ResolvedOpen, EnterMasterResult, HasCurrent
    <2>. DEFINE end == IF p.current.size = UnknownSize THEN UnknownSize ELSE p.pos + p.current.size
                f   == [id |-> p.current.id, start |-> p.current.offset, end |-> end]
    <2>3. f \in Frame /\ (f.end = UnknownSize <=> pendOpen.size = UnknownSize)
      <3>1. p.current.id \in ElementID
        BY <1>1, <1>4, <2>1 DEF OpenMaster
      <3>. QED BY <1>1, <2>1, <3>1 DEF Frame, ElementCtx, Extent, UnknownSize
    <2>. HIDE DEF f
    <2>4. SameMasters(open, p.stack) /\ closes = << >>
      BY <2>1 DEF StackMirror
    <2>5. SameMasters(ResolvedOpen, Append(p.stack, f))
      BY <1>1, <1>4, <2>1, <2>2, <2>3, <2>4, PushKeepsMasters DEF f
    <2>6. ResolvedParser = At(p, p.pos, Append(p.stack, f), NoElement)
      BY <2>2 DEF EnterMaster, f
    <2>7. Append(p.stack, f) \in Seq(Frame) /\ Append(open, pendOpen) \in Seq(OpenMaster)
      BY <1>1, <1>4, <2>3
    <2>8. Quiet(ResolvedParser) /\ ResolvedParser.fed = p.fed
          /\ ResolvedParser.stack = Append(p.stack, f)
      BY <1>1, <2>6, <2>7, NoElementType DEF At, Quiet, ParserState, HasCurrent, NoElement
    <2>. QED BY <2>1, <2>2, <2>4, <2>5, <2>7, <2>8
  <1>5. CASE pending = "leaf" /\ decision # "payloadDone"
    <2>1. ~eofRun /\ p.current.kind = "leaf" /\ p.current.size \in Nat
      BY <1>1, <1>5 DEF PendingMatches, ElementCtx, Extent
    <2>2. ResolveResult = PayloadResult(p) /\ ResolvedParser = StepOver(p) /\ ResolvedOpen = open
      BY <1>5, <2>1 DEF ResolveResult, ResolvedParser, ResolvedOpen, SkipPayloadResult, HasCurrent
    <2>3. /\ PayloadResult(p) \in {"ok", "NeedMoreData"}
          /\ (PayloadResult(p) = "NeedMoreData" => ShortPayload(p))
          /\ (PayloadResult(p) = "ok" => p.current.size <= p.fed - p.pos)
      BY <1>1, <2>1 DEF PayloadResult, ShortPayload, Available, HasCurrent, UnknownSize
    <2>4. ASSUME PayloadResult(p) = "ok"
          PROVE  /\ Quiet(ResolvedParser) /\ ResolvedParser.fed = p.fed
                 /\ ResolvedParser.stack = p.stack
      BY <1>1, <2>1, <2>2, <2>3, <2>4, StepOverQuiet
    <2>. QED BY <1>1, <2>1, <2>2, <2>3, <2>4 DEF StackMirror
  <1>6. CASE pending = "leaf" /\ decision = "payloadDone"
    <2>1. ~eofRun /\ ~HasCurrent(p)
      BY <1>6 DEF PendingMatches
    <2>2. ResolveResult = "ok" /\ ResolvedParser = p /\ ResolvedOpen = open
      BY <1>6 DEF ResolveResult, ResolvedParser, ResolvedOpen
    <2>. QED BY <1>1, <2>1, <2>2 DEF Quiet, StackMirror
  <1>. QED BY <1>2, <1>3, <1>4, <1>5, <1>6 DEF TypeOK

-----------------------------------------------------------------------------
(* The invariant is inductive.                                             *)

\* Once the end of the input was reported nothing else ever is: there is no
\* decision to carry out, nothing to close and not a byte to look at.
LEMMA AfterEOF ==
  ASSUME CursorInv, err = "none", EOFReported
  PROVE  /\ eofRun /\ finalized /\ closes = << >>
         /\ ResolveResult = "ok" /\ ResolvedParser = p /\ ResolvedOpen = open
         /\ PeekResult(doc, p) = "NeedMoreData"
  <1>1. /\ eofRun /\ p.pos = p.fed /\ ~HasCurrent(p) /\ closes = << >>
    BY DEF CursorInv, CleanEOF
  <1>2. finalized /\ pending = "none" /\ p.stack = << >>
    BY <1>1 DEF CursorInv, EOFRunDrained, StackMirror
  <1>3. ResolveResult = "ok" /\ ResolvedParser = p /\ ResolvedOpen = open
    BY <1>2 DEF ResolveResult, ResolvedParser, ResolvedOpen
  <1>4. p.fed \in Nat
    BY DEF CursorInv, TypeOK, ParserState
  <1>5. PeekResult(doc, p) = "NeedMoreData"
    BY <1>1, <1>2, <1>4 DEF PeekResult, AtMasterEnd, HeaderResult, HeaderOutcome, VINTResult, Available
  <1>. QED BY <1>1, <1>2, <1>3, <1>5

\* A failure ends the reading in a state of the right types.
LEMMA FailKeepsInv ==
  ASSUME TypeOK, ~EOFReported, NEW why \in StreamErrors, Fail(why),
         p' \in ParserState, p'.pos <= p'.fed, open' \in Seq(OpenMaster),
         pending' \in {"none", "master", "leaf"}, decision' \in Decision,
         pendOpen' \in (IF pending' = "master" THEN OpenMaster ELSE {NoMaster}),
         closes' \in Seq([id : ElementID, end : Nat]),
         finalized' \in BOOLEAN, eofRun' \in BOOLEAN, doc' = doc, skipped' = skipped
  PROVE  CursorInv'
  <1>1. err' = why /\ why # "none" /\ held' = "none"
    BY DEF Fail, StreamErrors, Malformed, Incomplete
  <1>2. events \in Seq(Event) /\ Outcome("fail", why) \in Event
        /\ Outcome("fail", why).ev # "eof" /\ events' = Append(events, Outcome("fail", why))
    BY OutcomeTypes DEF TypeOK, Fail, Outcome
  <1>3. events' \in Seq(Event) /\ ~EOFReported'
    BY <1>2, AppendEvent DEF EOFReported
  <1>4. TypeOK'
    BY <1>1, <1>3 DEF TypeOK
  <1>. QED BY <1>1, <1>3, <1>4
           DEF CursorInv, WithinInput, StackMirror, PendingMatches, HeldIsPending,
               EOFRunDrained, CleanEOF

\* What Next finds when a healthy cursor's decision could be carried out.
Ready(q, o) ==
  /\ Quiet(q) /\ q.fed = p.fed
  /\ o \in Seq(OpenMaster)
  /\ SameMasters(o, q.stack)

\* The end of a master is reported, outside the end of the input.
LEMMA IssueEndKeepsInv ==
  ASSUME TypeOK, err = "none", ~EOFReported, ~eofRun, closes = << >>,
         NEW q, NEW o, Ready(q, o), q.stack # << >>,
         NEW why \in CloseReason, IssueEnd(PopMaster(q), o, q.pos, why), Settled,
         UNCHANGED <<closes, eofRun, doc, finalized, skipped>>
  PROVE  CursorInv'
  <1>1. q.stack \in Seq(Frame) /\ q.pos \in Nat /\ q.fed \in Nat /\ q.pos <= q.fed
        /\ ~HasCurrent(q) /\ q \in ParserState
    BY DEF Ready, Quiet, ParserState
  <1>2. o # << >> /\ SameMasters(Pop(o), Pop(q.stack))
        /\ Pop(o) \in Seq(OpenMaster) /\ Pop(q.stack) \in Seq(Frame)
    BY <1>1, PopKeepsMasters DEF Ready
  <1>3. Top(o) \in OpenMaster /\ Len(o) - 1 \in Nat
    BY <1>2, PopFacts, LenProperties, EmptySeq DEF Ready
  <1>. DEFINE e == EndNode(Top(o), Len(o) - 1, q.pos, why)
  <1>4. /\ p' = PopMaster(q) /\ open' = Pop(o) /\ events' = Append(events, e)
        /\ held' = "end" /\ err' = "none"
    BY <1>2 DEF IssueEnd
  <1>5. e \in Event /\ e.ev # "eof"
    BY <1>1, <1>3, EndNodeType DEF EndNode
  <1>6. events' \in Seq(Event) /\ ~EOFReported'
    BY <1>4, <1>5, AppendEvent DEF TypeOK, EOFReported
  <1>7. p' \in ParserState /\ p'.pos = q.pos /\ p'.fed = q.fed /\ p'.stack = Pop(q.stack)
        /\ p'.current = q.current
    BY <1>1, <1>2, <1>4 DEF PopMaster, At, ParserState
  <1>8. pending' = "none" /\ decision' = "none" /\ pendOpen' = NoMaster
    BY DEF Settled
  <1>9. TypeOK'
    BY <1>2, <1>4, <1>6, <1>7, <1>8 DEF TypeOK, Decision
  <1>10. StackMirror' /\ PendingMatches'
    BY <1>1, <1>2, <1>4, <1>7, <1>8 DEF StackMirror, PendingMatches, HasCurrent
  <1>. QED BY <1>1, <1>4, <1>6, <1>7, <1>9, <1>10
           DEF CursorInv, WithinInput, HeldIsPending, EOFRunDrained, CleanEOF

\* The end of a master is reported at the end of the input: the cursor's stack
\* and the list of masters to close shrink together.
LEMMA DequeueKeepsInv ==
  ASSUME TypeOK, err = "none", ~EOFReported,
         NEW q \in ParserState, NEW o \in Seq(OpenMaster),
         NEW cs \in Seq([id : ElementID, end : Nat]),
         ~HasCurrent(q), q.pos = q.fed, q.stack = << >>, ClosesAll(cs, o), cs # << >>,
         DequeueClose(q, o, cs), Settled, eofRun' = TRUE, finalized' = TRUE,
         UNCHANGED <<doc, skipped>>
  PROVE  CursorInv'
  <1>1. /\ o # << >> /\ Top(o).id = Head(cs).id /\ Head(cs).end \in Nat
        /\ ClosesAll(Tail(cs), Pop(o)) /\ Pop(o) \in Seq(OpenMaster)
        /\ Tail(cs) \in Seq([id : ElementID, end : Nat])
    BY DequeueKeepsClosing
  <1>2. Top(o) \in OpenMaster /\ Len(o) - 1 \in Nat
    BY <1>1, PopFacts, LenProperties, EmptySeq
  <1>. DEFINE e == EndNode(Top(o), Len(o) - 1, Head(cs).end, "EndOfInput")
  <1>3. /\ p' = q /\ open' = Pop(o) /\ events' = Append(events, e)
        /\ closes' = Tail(cs) /\ held' = "end" /\ err' = "none"
    BY <1>1 DEF DequeueClose, IssueEnd
  <1>4. e \in Event /\ e.ev # "eof"
    BY <1>1, <1>2, EndNodeType DEF EndNode, CloseReason
  <1>5. events' \in Seq(Event) /\ ~EOFReported'
    BY <1>3, <1>4, AppendEvent DEF TypeOK, EOFReported
  <1>6. pending' = "none" /\ decision' = "none" /\ pendOpen' = NoMaster
    BY DEF Settled
  <1>7. TypeOK'
    BY <1>1, <1>3, <1>5, <1>6 DEF TypeOK, Decision
  <1>8. WithinInput' /\ StackMirror' /\ PendingMatches'
    BY <1>1, <1>3, <1>6 DEF WithinInput, StackMirror, PendingMatches, HasCurrent, ParserState
  <1>. QED BY <1>3, <1>5, <1>6, <1>7, <1>8 DEF CursorInv, HeldIsPending, EOFRunDrained, CleanEOF

\* The decisions.
LEMMA DecideStep ==
  ASSUME CursorInv, Descend \/ SkipSubtree \/ SkipLeaf
  PROVE  CursorInv'
  <1>. USE DEF Descend, SkipSubtree, SkipLeaf
  <1>1. (held = "master" \/ held = "leaf") /\ UNCHANGED <<p, open, closes, eofRun, finalized,
                                                  err, held, events, pending, pendOpen, doc>>
    OBVIOUS
  <1>2. decision' \in Decision /\ skipped' \subseteq Nat
    <2>1. SkipSubtree => pendOpen.offset \in Nat
      <3>1. SkipSubtree => pendOpen \in OpenMaster
        BY DEF CursorInv, TypeOK, HeldIsPending
      <3>. QED BY <3>1 DEF OpenMaster
    <2>. QED BY <2>1 DEF CursorInv, TypeOK, Decision
  <1>3. TypeOK' /\ WithinInput' /\ StackMirror' /\ HeldIsPending' /\ EOFRunDrained'
    BY <1>1, <1>2 DEF CursorInv, TypeOK, WithinInput, StackMirror, HeldIsPending, EOFRunDrained
  <1>4. CleanEOF'
    BY <1>1 DEF CursorInv, CleanEOF, EOFReported
  <1>5. PendingMatches'
    BY <1>1 DEF CursorInv, PendingMatches, HeldIsPending
  <1>. QED BY <1>3, <1>4, <1>5 DEF CursorInv

\* Payload decides on the pending leaf only: masters stay, and the payload is
\* within what was fed.
LEMMA PayloadStep ==
  ASSUME CursorInv, Payload
  PROVE  CursorInv'
  <1>. USE DEF Payload
  <1>1. pending = "leaf" /\ p \in ParserState /\ p.pos <= p.fed /\ p.pos \in Nat /\ p.fed \in Nat
    BY DEF CursorInv, TypeOK, WithinInput, HeldIsPending, ParserState
  <1>2. p.current.size \in Nat /\ p.current.size <= p.fed - p.pos
    <2>1. p.current.size \in Extent /\ p.current.size # UnknownSize
          /\ ~(Available(p) < p.current.size)
      BY <1>1 DEF PayloadResult, ParserState, ElementCtx
    <2>. QED BY <1>1, <2>1 DEF Extent, Available, UnknownSize
  <1>3. Quiet(p') /\ p'.fed = p.fed /\ p'.stack = p.stack
    BY <1>1, <1>2, StepOverQuiet
  <1>4. /\ decision' = "payloadDone"
        /\ UNCHANGED <<doc, open, pending, pendOpen, closes, finalized, eofRun, err,
                       held, events, skipped>>
    OBVIOUS
  <1>5. TypeOK'
    BY <1>3, <1>4 DEF CursorInv, TypeOK, Decision, Quiet
  <1>6. WithinInput' /\ StackMirror' /\ HeldIsPending' /\ PendingMatches'
    BY <1>1, <1>3, <1>4 DEF CursorInv, WithinInput, StackMirror, HeldIsPending, PendingMatches, Quiet
  <1>7. EOFRunDrained'
    BY <1>1, <1>4 DEF CursorInv, EOFRunDrained, PendingMatches
  <1>8. CleanEOF'
    <2>1. ~EOFReported
      <3>1. ASSUME EOFReported PROVE FALSE
        <4>1. p.pos = p.fed /\ ~HasCurrent(p)
          BY <3>1 DEF CursorInv, CleanEOF
        <4>. QED BY <4>1 DEF PayloadResult
      <3>. QED BY <3>1
    <2>. QED BY <1>4, <2>1 DEF EOFReported, CleanEOF
  <1>. QED BY <1>5, <1>6, <1>7, <1>8 DEF CursorInv

\* Feed moves nothing but the end of the input, which Finalize has not fixed yet.
LEMMA FeedStep ==
  ASSUME CursorInv, NEW n \in 1..Documents[doc].len, FeedChunk(n)
  PROVE  CursorInv'
  <1>. USE DEF FeedChunk
  <1>1. p \in ParserState /\ p.pos \in Nat /\ p.fed \in Nat /\ p.pos <= p.fed /\ n \in Nat
        /\ ~eofRun /\ ~finalized
    <2>1. Documents[doc].len \in Nat
      BY Assumption DEF DocumentsAssumption, CursorInv, TypeOK
    <2>. QED BY <2>1 DEF CursorInv, TypeOK, WithinInput, ParserState, EOFRunDrained
  <1>2. p' \in ParserState /\ p'.pos = p.pos /\ p'.fed = p.fed + n /\ p'.stack = p.stack
        /\ p'.current = p.current
    BY <1>1 DEF Feed, ParserState
  <1>3. UNCHANGED <<doc, open, pending, decision, pendOpen, closes, finalized, eofRun, err,
                    held, events, skipped>>
    OBVIOUS
  <1>4. TypeOK'
    BY <1>2, <1>3 DEF CursorInv, TypeOK
  <1>5. WithinInput' /\ StackMirror' /\ HeldIsPending' /\ PendingMatches' /\ EOFRunDrained'
    BY <1>1, <1>2, <1>3 DEF CursorInv, WithinInput, StackMirror, HeldIsPending, PendingMatches,
                            EOFRunDrained, HasCurrent
  <1>6. CleanEOF'
    BY <1>1, <1>3 DEF CursorInv, CleanEOF, EOFReported
  <1>. QED BY <1>4, <1>5, <1>6 DEF CursorInv

\* A Feed after Finalize is refused, and moves nothing.
LEMMA FeedAfterFinalizeStep ==
  ASSUME CursorInv, FeedAfterFinalize
  PROVE  CursorInv'
  <1>. USE DEF FeedAfterFinalize
  <1>1. err' = "FedAfterFinalize" /\ err' \in StreamErrors /\ err' # "none"
    BY DEF StreamErrors
  <1>2. UNCHANGED <<doc, p, open, pending, decision, pendOpen, closes, finalized, eofRun,
                    held, events, skipped>>
    OBVIOUS
  <1>3. TypeOK'
    BY <1>1, <1>2 DEF CursorInv, TypeOK
  <1>4. WithinInput' /\ StackMirror' /\ HeldIsPending' /\ PendingMatches' /\ EOFRunDrained'
    BY <1>1, <1>2 DEF CursorInv, WithinInput, StackMirror, HeldIsPending, PendingMatches,
                      EOFRunDrained
  <1>5. CleanEOF'
    BY <1>1, <1>2 DEF CursorInv, CleanEOF, EOFReported
  <1>. QED BY <1>3, <1>4, <1>5 DEF CursorInv

\* The calls of Next that leave everything where it was.
LEMMA NextRepeatsStep ==
  ASSUME CursorInv, NextAgain \/ NextResolveBlocked
  PROVE  CursorInv'
  <1>1. held' = "none" /\ UNCHANGED <<doc, p, open, pending, decision, pendOpen, closes,
                                      finalized, eofRun, err, events, skipped>>
    BY DEF NextAgain, NextResolveBlocked
  <1>2. TypeOK'
    BY <1>1 DEF CursorInv, TypeOK
  <1>3. WithinInput' /\ StackMirror' /\ HeldIsPending' /\ PendingMatches' /\ EOFRunDrained'
    BY <1>1 DEF CursorInv, WithinInput, StackMirror, HeldIsPending, PendingMatches,
                EOFRunDrained
  <1>4. CleanEOF'
    BY <1>1 DEF CursorInv, CleanEOF, EOFReported
  <1>. QED BY <1>2, <1>3, <1>4 DEF CursorInv

\* What a call of Next or Finalize finds before the end of the input was run.
LEMMA BeforeEOF ==
  ASSUME CursorInv, err = "none", ResolveResult = "ok", ~eofRun
  PROVE  Ready(ResolvedParser, ResolvedOpen) /\ closes = << >> /\ ~EOFReported
  BY Resolving DEF Ready, CursorInv, CleanEOF

\* An event other than the end of the input is still to come, so it was not run.
LEMMA PeekedMore ==
  ASSUME CursorInv, err = "none", ResolveResult = "ok",
         closes = << >>, PeekResult(doc, ResolvedParser) # "NeedMoreData"
  PROVE  ~eofRun
  <1>1. ASSUME eofRun PROVE FALSE
    <2>1. ResolvedParser = p
      BY <1>1, Resolving
    <2>2. p.pos = p.fed /\ ~HasCurrent(p) /\ p.stack = << >>
      BY <1>1 DEF CursorInv, EOFRunDrained, StackMirror, PendingMatches
    <2>3. p.fed \in Nat
      BY DEF CursorInv, TypeOK, ParserState
    <2>4. PeekResult(doc, p) = "NeedMoreData"
      BY <2>2, <2>3 DEF PeekResult, AtMasterEnd, HeaderResult, HeaderOutcome, VINTResult, Available
    <2>. QED BY <2>1, <2>4
  <1>. QED BY <1>1

\* A decision that can never be carried out is the request to skip a master of
\* unknown size, in Next and in Finalize.
LEMMA ResolveFailsStep ==
  ASSUME CursorInv, err = "none", ResolveResult \notin {"ok", "NeedMoreData"},
         Fail(ResolveResult), finalized' \in BOOLEAN,
         UNCHANGED <<doc, p, open, pending, decision, pendOpen, closes, eofRun, skipped>>
  PROVE  CursorInv'
  <1>1. ResolveResult \in StreamErrors
    BY Resolving DEF StreamErrors
  <1>2. ~EOFReported
    BY AfterEOF
  <1>. QED BY <1>1, <1>2, FailKeepsInv DEF CursorInv, TypeOK, WithinInput

\* A queued close leaves one master less on the cursor's stack and in the queue.
LEMMA NextDequeueStep ==
  ASSUME CursorInv, NextDequeue
  PROVE  CursorInv'
  <1>. USE DEF NextDequeue, Idle
  <1>1. eofRun
    BY DEF CursorInv, StackMirror
  <1>2. ResolvedParser = p /\ ResolvedOpen = open
    BY <1>1, Resolving
  <1>3. /\ p \in ParserState /\ ~HasCurrent(p) /\ p.pos = p.fed /\ p.stack = << >>
        /\ ClosesAll(closes, open) /\ finalized
    BY <1>1 DEF CursorInv, TypeOK, EOFRunDrained, PendingMatches, StackMirror
  <1>4. ~EOFReported
    BY AfterEOF
  <1>. QED BY <1>1, <1>2, <1>3, <1>4, DequeueKeepsInv DEF CursorInv, TypeOK

\* A Next that needs more has moved the parser past what it resolved, no further.
LEMMA NextNeedsMoreStep ==
  ASSUME CursorInv, NextNeedsMore
  PROVE  CursorInv'
  <1>. USE DEF NextNeedsMore, Idle, Settled
  <1>1. ~eofRun
    BY DEF CursorInv, EOFRunDrained
  <1>2. Ready(ResolvedParser, ResolvedOpen) /\ ~EOFReported
    BY <1>1, BeforeEOF
  <1>3. TypeOK'
    BY <1>2 DEF CursorInv, TypeOK, Ready, Quiet, Decision
  <1>4. WithinInput' /\ StackMirror' /\ HeldIsPending' /\ PendingMatches' /\ EOFRunDrained'
    BY <1>1, <1>2 DEF Ready, Quiet, WithinInput, StackMirror, HeldIsPending, PendingMatches,
                      EOFRunDrained, HasCurrent
  <1>5. CleanEOF'
    BY <1>2 DEF CleanEOF, EOFReported
  <1>. QED BY <1>3, <1>4, <1>5 DEF CursorInv

\* An end node takes the innermost master off both stacks.
LEMMA NextEndStep ==
  ASSUME CursorInv, NextEnd
  PROVE  CursorInv'
  <1>. USE DEF NextEnd, AdvanceEnd, Idle
  <1>. DEFINE q == ResolvedParser
  <1>1. ~eofRun
    BY PeekedMore
  <1>2. Ready(q, ResolvedOpen) /\ ~EOFReported
    BY <1>1, BeforeEOF
  <1>3. AtMasterEnd(q)
    BY <1>2, PeekAnswers DEF Ready, CursorInv, TypeOK
  <1>4. q.stack # << >> /\ LeaveMasterResult(q) = "ok"
    <2>1. Top(q.stack) \in Frame /\ q.pos \in Nat
      BY <1>2, <1>3, PopFacts DEF AtMasterEnd, Ready, Quiet, ParserState
    <2>. QED BY <1>3, <2>1 DEF AtMasterEnd, LeaveMasterResult, Frame, Extent, UnknownSize
  <1>. HIDE DEF q
  <1>5. IssueEnd(PopMaster(q), ResolvedOpen, q.pos, "DeclaredEnd") /\ Settled
    BY <1>4 DEF q
  <1>. QED BY <1>1, <1>2, <1>4, <1>5, IssueEndKeepsInv DEF CursorInv, CloseReason

\* A malformed header is latched where it stands.
LEMMA NextMalformedStep ==
  ASSUME CursorInv, NextMalformed
  PROVE  CursorInv'
  <1>. USE DEF NextMalformed, Idle, Settled
  <1>1. ~eofRun
    BY PeekedMore DEF Malformed, Misuse
  <1>2. Ready(ResolvedParser, ResolvedOpen) /\ ~EOFReported
    BY <1>1, BeforeEOF
  <1>3. PeekResult(doc, ResolvedParser) \in Malformed
    BY <1>2, PeekAnswers DEF Ready, CursorInv, TypeOK, Misuse
  <1>4. PeekResult(doc, ResolvedParser) \in StreamErrors
    BY <1>3 DEF StreamErrors
  <1>5. /\ p' \in ParserState /\ p'.pos <= p'.fed /\ open' \in Seq(OpenMaster)
        /\ pending' = "none" /\ decision' \in Decision /\ pendOpen' = NoMaster
    BY <1>2 DEF Ready, Quiet, Decision
  <1>. QED BY <1>2, <1>4, <1>5, FailKeepsInv DEF CursorInv, TypeOK

\* The end of the input closes what is open, or finds the input incomplete.
LEMMA NextRunsEOFStep ==
  ASSUME CursorInv, NextRunsEOF
  PROVE  CursorInv'
  <1>. USE DEF NextRunsEOF, Idle
  <1>. DEFINE q == ResolvedParser
              o == ResolvedOpen
              r == FinalizeEOFResult(doc, q)
  <1>1. Ready(q, o) /\ ~EOFReported
    BY BeforeEOF
  <1>2. doc \in DOMAIN Documents /\ Quiet(q) /\ PeekResult(doc, q) = "NeedMoreData"
    BY <1>1 DEF Ready, CursorInv, TypeOK
  <1>3. r \in {"ok"} \cup Incomplete /\ (r = "ok" => q.pos = q.fed)
    BY <1>2, EndOfInputAnswers
  <1>4. /\ ClosedMasters(q) \in Seq([id : ElementID, end : Nat])
        /\ ClosesAll(ClosedMasters(q), o)
        /\ ClosedMasters(q) = << >> => o = << >>
    BY <1>1, ClosedMastersClose DEF Ready
  <1>5. pending' = "none" /\ decision' = "none" /\ pendOpen' = NoMaster /\ eofRun' = TRUE
        /\ finalized /\ finalized' = TRUE
    BY DEF Settled, CursorInv, TypeOK
  <1>6. << >> \in Seq([id : ElementID, end : Nat])
    BY EmptySeq
  <1>7. CASE r # "ok"
    <2>1. Fail(r) /\ p' = q /\ open' = o /\ closes' = << >>
      BY <1>7
    <2>2. r \in StreamErrors
      BY <1>3, <1>7 DEF StreamErrors
    <2>. QED BY <1>1, <1>5, <1>6, <2>1, <2>2, FailKeepsInv
             DEF Ready, Quiet, CursorInv, TypeOK, Decision
  <1>. DEFINE e == FinalizeEOF(q)
  <1>8. /\ e \in ParserState /\ ~HasCurrent(e) /\ e.pos = q.pos /\ e.fed = q.fed
        /\ e.stack = << >>
    <2>1. << >> \in Seq(Frame)
      BY EmptySeq
    <2>. QED BY <1>1, <2>1 DEF FinalizeEOF, At, Ready, Quiet, ParserState, HasCurrent
  <1>9. CASE r = "ok" /\ ClosedMasters(q) # << >>
    <2>1. DequeueClose(e, o, ClosedMasters(q))
      BY <1>9
    <2>2. o \in Seq(OpenMaster) /\ e.pos = e.fed
      BY <1>1, <1>3, <1>8, <1>9 DEF Ready
    <2>. HIDE DEF q, o, r, e
    <2>. QED BY <1>1, <1>4, <1>5, <1>8, <1>9, <2>1, <2>2, DequeueKeepsInv DEF CursorInv
  <1>10. CASE r = "ok" /\ ClosedMasters(q) = << >>
    <2>1. /\ p' = e /\ open' = << >> /\ closes' = << >> /\ held' = "none" /\ err' = "none"
          /\ events' = Append(events, Outcome("eof", "none"))
      BY <1>4, <1>10
    <2>2. events' \in Seq(Event)
      BY <2>1, OutcomeTypes, AppendEvent DEF CursorInv, TypeOK
    <2>3. TypeOK'
      BY <1>5, <1>6, <1>8, <2>1, <2>2, EmptySeq DEF CursorInv, TypeOK, Decision
    <2>4. p'.pos = p'.fed /\ p'.stack = << >> /\ ~HasCurrent(p') /\ p'.fed \in Nat
      BY <1>3, <1>8, <1>10, <2>1 DEF ParserState
    <2>5. ClosesAll(closes', open')
      BY <2>1 DEF ClosesAll
    <2>. QED BY <1>5, <2>1, <2>3, <2>4, <2>5
             DEF CursorInv, WithinInput, StackMirror, PendingMatches, HeldIsPending,
                 EOFRunDrained, CleanEOF, HasCurrent
  <1>. QED BY <1>7, <1>9, <1>10

\* The end of the input is reported with the bytes consumed and no master open.
LEMMA NextEOFStep ==
  ASSUME CursorInv, NextEOF
  PROVE  CursorInv'
  <1>. USE DEF NextEOF, Idle, Settled
  <1>1. ResolvedParser = p /\ ResolvedOpen = open
    BY Resolving
  <1>2. /\ finalized /\ p.pos = p.fed /\ pending = "none" /\ ~HasCurrent(p)
        /\ p.stack = << >> /\ ClosesAll(closes, open)
    BY DEF CursorInv, EOFRunDrained, StackMirror, PendingMatches
  <1>3. open = << >>
    BY <1>2, EmptySeq DEF ClosesAll, CursorInv, TypeOK
  <1>4. events' = Append(events, Outcome("eof", "none")) /\ events' \in Seq(Event)
    BY OutcomeTypes, AppendEvent DEF CursorInv, TypeOK
  <1>5. TypeOK'
    BY <1>1, <1>4 DEF CursorInv, TypeOK, Decision
  <1>6. WithinInput' /\ StackMirror' /\ HeldIsPending' /\ PendingMatches' /\ EOFRunDrained'
    BY <1>1, <1>2 DEF CursorInv, WithinInput, StackMirror, HeldIsPending, PendingMatches,
                      EOFRunDrained
  <1>7. CleanEOF'
    BY <1>1, <1>2, <1>3 DEF CleanEOF
  <1>. QED BY <1>5, <1>6, <1>7 DEF CursorInv

\* A complete header: reported, or the end of the innermost unknown-size master.
LEMMA NextHeaderStep ==
  ASSUME CursorInv, NextHeader
  PROVE  CursorInv'
  <1>. USE DEF NextHeader, Idle
  <1>. DEFINE q == ResolvedParser
              o == ResolvedOpen
              h == HeaderAt(doc, q.pos)
  <1>1. ~eofRun
    BY PeekedMore
  <1>2. Ready(q, o) /\ ~EOFReported
    BY <1>1, BeforeEOF
  <1>3. /\ q \in ParserState /\ q.pos \in Nat /\ q.fed \in Nat /\ q.pos <= q.fed
        /\ ~HasCurrent(q) /\ q.stack \in Seq(Frame) /\ o \in Seq(OpenMaster)
    BY <1>2 DEF Ready, Quiet, ParserState
  <1>4. /\ h \in Header /\ HeaderLen(h) \in 1..(q.fed - q.pos)
        /\ h.size = UnknownSize => KindOf[h.id] = "master"
    BY <1>2, PeekAnswers DEF Ready, CursorInv, TypeOK
  <1>5. KindOf[h.id] \in Kind /\ h.id \in ElementID /\ h.size \in Extent
    BY <1>4, Assumption DEF DocumentsAssumption, Header, Extent
  <1>. HIDE DEF q, o, h
  <1>6. AdvanceHeader(q, o)
    BY DEF q, o
  <1>7. CASE KindOf[h.id] = "endmaster"
    <2>1. Fail("Classifier") /\ p' = q /\ open' = o /\ Settled
      BY <1>6, <1>7 DEF AdvanceHeader, h
    <2>. QED BY <1>2, <1>3, <2>1, FailKeepsInv
             DEF Settled, StreamErrors, CursorInv, TypeOK, Decision
  <1>8. CASE KindOf[h.id] # "endmaster" /\ CrossesBoundary(q, o, h)
    <2>1. o # << >> /\ Top(o).size = UnknownSize
      BY <1>8 DEF CrossesBoundary
    <2>2. q.stack # << >>
      BY <1>2, <1>3, <2>1, EmptySeq, LenProperties DEF Ready, SameMasters
    <2>3. Top(q.stack).end = UnknownSize
      BY <1>2, <1>3, <2>1, <2>2, PopKeepsMasters DEF Ready
    <2>4. CloseMasterResult(q) = "ok"
      BY <2>2, <2>3 DEF CloseMasterResult
    <2>5. IssueEnd(PopMaster(q), o, q.pos, "Boundary") /\ Settled
      BY <1>6, <1>8, <2>4 DEF AdvanceHeader, h
    <2>. QED BY <1>1, <1>2, <2>2, <2>5, IssueEndKeepsInv DEF CursorInv, CloseReason
  <1>9. CASE KindOf[h.id] \in {"master", "leaf"} /\ ~CrossesBoundary(q, o, h)
    <2>. DEFINE c == [id |-> h.id, kind |-> KindOf[h.id], size |-> h.size, offset |-> q.pos]
                e == ElementNode(KindOf[h.id], h, q.pos, Len(o))
    <2>1. /\ p' = At(q, q.pos + HeaderLen(h), q.stack, c) /\ open' = o
          /\ pending' = KindOf[h.id] /\ decision' = "none"
          /\ pendOpen' = IF KindOf[h.id] = "master"
                         THEN [id |-> h.id, offset |-> q.pos, size |-> h.size] ELSE NoMaster
          /\ events' = Append(events, e) /\ held' = KindOf[h.id] /\ err' = err
      BY <1>6, <1>9 DEF AdvanceHeader, ConsumeHeader, h
    <2>2. c \in ElementCtx
      BY <1>3, <1>5 DEF ElementCtx
    <2>3. e \in Event /\ e.ev # "eof"
      BY <1>3, <1>4, <1>9, ElementNodeType, LenProperties DEF ElementNode
    <2>4. events' \in Seq(Event) /\ ~EOFReported'
      BY <1>2, <2>1, <2>3, AppendEvent DEF CursorInv, TypeOK, EOFReported
    <2>5. q.pos + HeaderLen(h) \in Nat /\ q.pos + HeaderLen(h) <= q.fed
      BY <1>3, <1>4
    <2>. HIDE DEF c, e
    <2>6. /\ p' \in ParserState /\ p'.pos <= p'.fed /\ p'.current = c /\ p'.stack = q.stack
      BY <1>3, <2>1, <2>2, <2>5 DEF At, ParserState
    <2>7. pendOpen' \in IF pending' = "master" THEN OpenMaster ELSE {NoMaster}
      BY <1>3, <1>5, <2>1 DEF OpenMaster
    <2>8. TypeOK'
      BY <1>1, <1>3, <1>9, <2>1, <2>4, <2>6, <2>7 DEF CursorInv, TypeOK, Decision
    <2>9. WithinInput' /\ HeldIsPending' /\ EOFRunDrained' /\ CleanEOF'
      BY <1>1, <1>9, <2>1, <2>4, <2>6 DEF WithinInput, HeldIsPending, EOFRunDrained, CleanEOF
    <2>10. StackMirror'
      BY <1>1, <1>2, <2>1, <2>6 DEF StackMirror, Ready
    <2>11. PendingMatches'
      BY <1>1, <1>4, <1>9, <2>1, <2>6 DEF PendingMatches, c
    <2>. QED BY <2>8, <2>9, <2>10, <2>11 DEF CursorInv
  <1>. QED BY <1>5, <1>7, <1>8, <1>9 DEF Kind

\* Finalize runs the end of the input at once, or leaves it to a later Next; either
\* way the masters it closes are those the cursor still has to report.
LEMMA FinalizeStep ==
  ASSUME CursorInv, Finalize
  PROVE  CursorInv'
  <1>. DEFINE blocked == ResolveResult = "NeedMoreData"
              q    == IF blocked THEN p ELSE ResolvedParser
              peek == PeekResult(doc, q)
              r    == FinalizeEOFResult(doc, q)
  <1>1. /\ err = "none" /\ ~finalized /\ finalized' = TRUE /\ held' = "none"
        /\ UNCHANGED <<doc, skipped>>
    BY DEF Finalize
  <1>2. ~eofRun /\ ~EOFReported /\ closes = << >>
    BY <1>1 DEF CursorInv, EOFRunDrained, CleanEOF, StackMirror
  <1>3. CASE ResolveResult \notin {"ok", "NeedMoreData"}
    <2>1. /\ Fail(ResolveResult)
          /\ UNCHANGED <<p, open, pending, decision, pendOpen, closes, eofRun>>
      BY <1>3 DEF Finalize
    <2>. QED BY <1>1, <1>3, <2>1, ResolveFailsStep
  \* The bytes of the pending element are not there, so neither is the rest.
  <1>4. CASE ResolveResult = "NeedMoreData"
    <2>1. ShortPayload(p) /\ r = "TruncatedPayload"
      BY <1>1, <1>4, Resolving DEF FinalizeEOFResult
    <2>2. /\ p' = p /\ UNCHANGED <<open, pending, decision, pendOpen>>
          /\ eofRun' = TRUE /\ Fail("TruncatedPayload") /\ UNCHANGED closes
      BY <1>4, <2>1 DEF Finalize
    <2>. QED BY <1>1, <1>2, <2>2, FailKeepsInv
             DEF CursorInv, TypeOK, WithinInput, StreamErrors, Incomplete
  <1>5. CASE ResolveResult = "ok"
    <2>1. q = ResolvedParser /\ Ready(q, ResolvedOpen)
      BY <1>1, <1>2, <1>5, BeforeEOF
    <2>2. doc \in DOMAIN Documents /\ Quiet(q)
      BY <2>1 DEF Ready, CursorInv, TypeOK
    <2>3. peek \in {"ok", "EndMaster", "NeedMoreData"} \cup Malformed
      BY <2>2, PeekAnswers
    <2>4. open' = ResolvedOpen /\ pending' = "none" /\ decision' = "none" /\ pendOpen' = NoMaster
      BY <1>5 DEF Finalize, Settled
    \* Complete events are still unreported.
    <2>5. CASE peek \in {"ok", "EndMaster"}
      <3>1. p' = q /\ UNCHANGED <<closes, eofRun, err, events>>
        BY <1>5, <2>5 DEF Finalize
      <3>2. TypeOK'
        BY <1>1, <2>1, <2>4, <3>1 DEF CursorInv, TypeOK, Ready, Quiet, Decision
      <3>3. /\ WithinInput' /\ StackMirror' /\ HeldIsPending' /\ PendingMatches'
            /\ EOFRunDrained' /\ CleanEOF'
        BY <1>1, <1>2, <2>1, <2>4, <3>1
           DEF WithinInput, StackMirror, HeldIsPending, PendingMatches, EOFRunDrained,
               CleanEOF, EOFReported, Ready, Quiet
      <3>. QED BY <3>2, <3>3 DEF CursorInv
    <2>6. CASE peek \in Malformed
      <3>1. p' = q /\ Fail(peek) /\ UNCHANGED <<closes, eofRun>>
        BY <1>5, <2>6 DEF Finalize, Malformed
      <3>2. peek \in StreamErrors
        BY <2>6 DEF StreamErrors
      <3>. QED BY <1>1, <1>2, <2>1, <2>4, <3>1, <3>2, FailKeepsInv
               DEF CursorInv, TypeOK, Ready, Quiet, Decision
    <2>7. CASE peek = "NeedMoreData"
      <3>1. r \in {"ok"} \cup Incomplete /\ (r = "ok" => q.pos = q.fed)
        BY <2>2, <2>7, EndOfInputAnswers
      <3>2. eofRun' = TRUE
        BY <1>5, <2>7 DEF Finalize
      <3>3. CASE r # "ok"
        <4>1. p' = q /\ Fail(r) /\ UNCHANGED closes
          BY <1>5, <2>7, <3>3 DEF Finalize
        <4>2. r \in StreamErrors
          BY <3>1, <3>3 DEF StreamErrors
        <4>. QED BY <1>1, <1>2, <2>1, <2>4, <3>2, <4>1, <4>2, FailKeepsInv
                 DEF CursorInv, TypeOK, Ready, Quiet, Decision
      <3>4. CASE r = "ok"
        <4>1. p' = FinalizeEOF(q) /\ closes' = ClosedMasters(q) /\ UNCHANGED <<err, events>>
          BY <1>5, <2>7, <3>4 DEF Finalize
        <4>2. /\ ClosedMasters(q) \in Seq([id : ElementID, end : Nat])
              /\ ClosesAll(ClosedMasters(q), ResolvedOpen)
          BY <2>1, ClosedMastersClose DEF Ready
        <4>3. << >> \in Seq(Frame)
          BY EmptySeq
        <4>4. /\ p' \in ParserState /\ ~HasCurrent(p') /\ p'.stack = << >>
              /\ p'.pos = p'.fed /\ p'.fed \in Nat
          BY <2>1, <3>1, <3>4, <4>1, <4>3
             DEF FinalizeEOF, At, Ready, Quiet, ParserState, HasCurrent
        <4>5. TypeOK'
          BY <1>1, <2>1, <2>4, <3>2, <4>1, <4>2, <4>4 DEF CursorInv, TypeOK, Ready, Decision
        <4>6. /\ WithinInput' /\ StackMirror' /\ HeldIsPending' /\ PendingMatches'
              /\ EOFRunDrained' /\ CleanEOF'
          BY <1>1, <1>2, <2>1, <2>4, <3>2, <4>1, <4>2, <4>4
             DEF WithinInput, StackMirror, HeldIsPending, PendingMatches, EOFRunDrained,
                 CleanEOF, EOFReported, HasCurrent
        <4>. QED BY <4>5, <4>6 DEF CursorInv
      <3>. QED BY <3>3, <3>4
    <2>. QED BY <2>3, <2>5, <2>6, <2>7
  <1>. QED BY <1>1, <1>3, <1>4, <1>5, Resolving

-----------------------------------------------------------------------------

\* A new cursor satisfies the invariant.
LEMMA InitInv == Init => CursorInv
  <1>. SUFFICES ASSUME Init PROVE CursorInv
    OBVIOUS
  <1>1. New(doc) \in ParserState /\ ~HasCurrent(New(doc)) /\ New(doc).stack = << >>
        /\ New(doc).pos = New(doc).fed
    <2>1. Documents[doc].start \in Nat
      BY Assumption DEF DocumentsAssumption, Init
    <2>. QED BY <2>1, NoElementType, EmptySeq DEF New, ParserState, HasCurrent, NoElement
  <1>2. TypeOK
    BY <1>1, EmptySeq DEF Init, TypeOK, Decision
  <1>3. New(doc).pos \in Nat
    BY <1>1 DEF ParserState
  <1>. QED BY <1>1, <1>2, <1>3
           DEF Init, CursorInv, WithinInput, StackMirror, SameMasters, PendingMatches,
               HeldIsPending, EOFRunDrained, CleanEOF, EOFReported

\* The invariant is inductive: one lemma above for each call and outcome.
LEMMA NextInv == CursorInv /\ [Next]_vars => CursorInv'
  <1>. SUFFICES ASSUME CursorInv, [Next]_vars PROVE CursorInv'
    OBVIOUS
  <1>1. CASE Descend \/ SkipSubtree \/ SkipLeaf
    BY <1>1, DecideStep
  <1>2. CASE Payload
    BY <1>2, PayloadStep
  <1>3. CASE NextAgain \/ NextResolveBlocked
    BY <1>3, NextRepeatsStep
  <1>4. CASE NextResolveFails
    <2>1. finalized' \in BOOLEAN
      BY <1>4 DEF NextResolveFails, Idle, CursorInv, TypeOK
    <2>. QED BY <1>4, <2>1, ResolveFailsStep DEF NextResolveFails, Idle
  <1>5. CASE NextDequeue
    BY <1>5, NextDequeueStep
  <1>6. CASE NextNeedsMore
    BY <1>6, NextNeedsMoreStep
  <1>7. CASE NextRunsEOF
    BY <1>7, NextRunsEOFStep
  <1>8. CASE NextEOF
    BY <1>8, NextEOFStep
  <1>9. CASE NextEnd
    BY <1>9, NextEndStep
  <1>10. CASE NextHeader
    BY <1>10, NextHeaderStep
  <1>11. CASE NextMalformed
    BY <1>11, NextMalformedStep
  <1>12. CASE \E n \in 1..Documents[doc].len : FeedChunk(n)
    BY <1>12, FeedStep
  <1>13. CASE FeedAfterFinalize
    BY <1>13, FeedAfterFinalizeStep
  <1>14. CASE Finalize
    BY <1>14, FinalizeStep
  <1>15. CASE UNCHANGED vars
    BY <1>15 DEF vars, CursorInv, TypeOK, WithinInput, StackMirror, PendingMatches,
                 HeldIsPending, EOFRunDrained, CleanEOF, EOFReported
  <1>. QED BY <1>1, <1>2, <1>3, <1>4, <1>5, <1>6, <1>7, <1>8, <1>9, <1>10, <1>11, <1>12,
              <1>13, <1>14, <1>15 DEF Next, Consume, CursorNext

\* The cursor's variables keep their types and its bookkeeping stays consistent,
\* whatever the documents, the classifier and the boundary rule are, however the
\* input is chunked and whatever the consumer decides (cursor.go, Next and Finalize).
THEOREM CursorCorrect == Spec => []CursorInv
  BY InitInv, NextInv, PTL DEF Spec

\* The cursor's stack of open masters and the parser's, pushed and popped by
\* different calls, hold the same masters at every call (cursor.go, resolve,
\* issueEnd, dequeueClose).
THEOREM StacksAgree == Spec => []StackMirror
  <1>1. CursorInv => StackMirror
    BY DEF CursorInv
  <1>. QED BY <1>1, CursorCorrect, PTL

\* io.EOF is reported only when every byte fed was consumed and every master was
\* closed: a truncated input never passes for a complete one (cursor.go, Finalize).
THEOREM EOFIsClean == Spec => []CleanEOF
  <1>1. CursorInv => CleanEOF
    BY DEF CursorInv
  <1>. QED BY <1>1, CursorCorrect, PTL

\* The error branches that guard the bookkeeping itself (cursor.go, issueEnd and
\* dequeueClose; parser.go, EnterMaster, LeaveMaster, SkipPayload) are unreachable.
THEOREM BookkeepingHolds == Spec => []NoBookkeepingError
  <1>1. CursorInv => NoBookkeepingError
    BY DEF CursorInv, TypeOK, NoBookkeepingError, StreamErrors, Malformed, Incomplete, Misuse
  <1>. QED BY <1>1, CursorCorrect, PTL

-----------------------------------------------------------------------------
(* What a reading of the input makes.                                      *)

Sound(r) == r.stop = "out" => Extends(r.evs, r.closed)

\* v is r, read on.
Onward(eoi, r, v) ==
  v \in Progress(eoi) /\ r.pos <= v.pos /\ Extends(r.evs, v.evs) /\ (Sound(r) => Sound(v))

\* Everything begins with itself, and grows at its end.
LEMMA ExtendsItself ==
  ASSUME NEW s \in Seq(Event), NEW e
  PROVE  Extends(s, s) /\ Extends(s, Append(s, e))
  BY DEF Extends

\* To begin with is to have as a prefix.
LEMMA EventsArePrefix ==
  ASSUME NEW s \in Seq(Event), NEW t \in Seq(Event), Extends(s, t)
  PROVE  IsPrefix(s, t)
  <1>1. Len(s) \in Nat /\ Len(t) \in Nat /\ Len(s) <= Len(t)
    BY DEF Extends
  <1>2. SubSeq(s, 1, Len(s)) = s
    BY SubSeqFull
  <1> DEFINE n == Len(s)
             u == SubSeq(t, 1, n)
  <1>3. \A i \in 1..n : t[i] \in Event
    BY <1>1
  <1>4. u \in Seq(Event) /\ Len(u) = n /\ \A i \in 1..n : u[i] = t[i]
    BY <1>1, <1>3
  <1>5. \A i \in 1..n : u[i] = s[i]
    BY <1>4 DEF Extends
  <1> HIDE DEF u
  <1>6. u = s
    BY <1>4, <1>5, SeqEqual
  <1> QED BY <1>1, <1>2, <1>6 DEF IsPrefix, u

\* Read on twice, a reading is read on.
LEMMA OnwardOn ==
  ASSUME NEW eoi \in Nat, NEW r \in Progress(eoi), NEW s \in Progress(eoi), NEW t,
         Onward(eoi, r, s), Onward(eoi, s, t)
  PROVE  Onward(eoi, r, t)
  <1>1. t \in Progress(eoi) /\ r.pos <= s.pos /\ s.pos <= t.pos
    BY DEF Onward
  <1>2. r.evs \in Seq(Event) /\ s.evs \in Seq(Event) /\ t.evs \in Seq(Event)
        /\ r.pos \in Nat /\ s.pos \in Nat /\ t.pos \in Nat
    BY <1>1 DEF Progress
  <1>3. Extends(r.evs, t.evs)
    <2>1. Extends(r.evs, s.evs) /\ Extends(s.evs, t.evs)
      BY DEF Onward
    <2> QED BY <1>2, <2>1, ExtendsOn
  <1>4. r.pos <= t.pos
    BY <1>1, <1>2
  <1>5. Sound(r) => Sound(t)
    BY DEF Onward
  <1> QED BY <1>1, <1>3, <1>4, <1>5 DEF Onward

-----------------------------------------------------------------------------
(* The ways a reading goes on.                                             *)

\* A reading that goes on is one in progress.
LEMMA GoingIs ==
  ASSUME NEW eoi \in Nat, NEW evs \in Seq(Event), NEW pos \in 0..eoi
  PROVE  /\ Going(evs, pos) \in Progress(eoi) /\ Sound(Going(evs, pos))
         /\ Going(evs, pos).evs = evs /\ Going(evs, pos).pos = pos /\ Going(evs, pos).stop = "go"
  <1> DEFINE e == << >>
  <1>1. e \in Seq(Event)
    BY EmptySeq
  <1> HIDE DEF e
  <1>2. Going(evs, pos) = Standing(evs, pos, "go", e, FALSE)
    BY DEF Going, e
  <1>3. /\ Standing(evs, pos, "go", e, FALSE) \in Progress(eoi)
        /\ Standing(evs, pos, "go", e, FALSE).evs = evs
        /\ Standing(evs, pos, "go", e, FALSE).pos = pos
        /\ Standing(evs, pos, "go", e, FALSE).stop = "go"
    BY <1>1 DEF Standing, Progress
  <1> QED BY <1>2, <1>3 DEF Sound

\* One more event, and the reading stands at its place or further on.
LEMMA StepsOnward ==
  ASSUME NEW eoi \in Nat, NEW r \in Progress(eoi), NEW e \in Event, NEW pos \in 0..eoi,
         r.pos <= pos, NEW stop \in {"go", "end", "fail"}
  PROVE  Onward(eoi, r, Standing(Append(r.evs, e), pos, stop, << >>, FALSE))
  <1> DEFINE n == << >>
  <1>1. n \in Seq(Event)
    BY EmptySeq
  <1>2. r.evs \in Seq(Event)
    BY DEF Progress
  <1>3. Append(r.evs, e) \in Seq(Event) /\ Extends(r.evs, Append(r.evs, e))
    BY <1>2, ExtendsItself
  <1> DEFINE x == Append(r.evs, e)
  <1> HIDE DEF n, x
  <1>4. x \in Seq(Event)
    BY <1>3 DEF x
  <1>5. /\ Standing(x, pos, stop, n, FALSE) \in Progress(eoi)
        /\ Standing(x, pos, stop, n, FALSE).evs = x
        /\ Standing(x, pos, stop, n, FALSE).pos = pos
        /\ Standing(x, pos, stop, n, FALSE).stop = stop
    BY <1>1, <1>4 DEF Standing, Progress
  <1>6. Extends(r.evs, x)
    BY <1>3 DEF x
  <1>7. Onward(eoi, r, Standing(x, pos, stop, n, FALSE))
    BY <1>5, <1>6 DEF Onward, Sound
  <1> QED BY <1>7 DEF n, x

\* So for a failure.
LEMMA StopsOnward ==
  ASSUME NEW eoi \in Nat, NEW r \in Progress(eoi), NEW why \in StreamErrors
  PROVE  Onward(eoi, r, Stop(r, why))
  <1>1. Outcome("fail", why) \in Event /\ r.pos \in 0..eoi /\ r.pos <= r.pos
    BY OutcomeTypes DEF Progress
  <1> QED BY <1>1, StepsOnward DEF Stop

\* So for the end of a master.
LEMMA ClosesOnward ==
  ASSUME NEW eoi \in Nat, NEW r \in Progress(eoi), NEW m \in Place, m.level # 0,
         NEW reason \in CloseReason
  PROVE  /\ EndNode(m.om, m.level - 1, r.pos, reason) \in Event
         /\ Onward(eoi, r, Close(r, m, reason))
  <1>1. r.pos \in 0..eoi /\ r.pos <= r.pos /\ r.pos \in Nat
    BY DEF Progress
  <1>2. m.level - 1 \in Nat /\ m.om \in OpenMaster \cup {NoMaster}
    BY DEF Place
  <1>3. /\ m.om.id \in ElementID \cup {"none"} /\ m.om.offset \in Nat /\ m.om.size \in Extent
    BY <1>2 DEF OpenMaster, NoMaster, Extent
  <1>4. EndNode(m.om, m.level - 1, r.pos, reason) \in Event
    BY <1>1, <1>2, <1>3 DEF EndNode, Event, Extent
  <1> QED BY <1>1, <1>4, StepsOnward DEF Close

\* Out of input: the reading says all it said before, with or without the ends.
LEMMA LeftOpenOnward ==
  ASSUME NEW eoi \in Nat, NEW r \in Progress(eoi), NEW m \in Place, r.stop = "out"
  PROVE  Onward(eoi, r, LeftOpen(r, m))
  <1>1. r.evs \in Seq(Event) /\ r.closed \in Seq(Event) /\ r.pos \in 0..eoi /\ r.pos <= r.pos
        /\ r.short \in BOOLEAN
    BY DEF Progress
  <1>2. CASE m.level = 0
    BY <1>1, <1>2, ExtendsItself DEF LeftOpen, Onward
  <1>3. CASE m.level # 0
    <2> DEFINE e == EndNode(m.om, m.level - 1, r.pos, "EndOfInput")
               b == r.short \/ (m.end # UnknownSize /\ r.pos < m.end)
    <2>1. e \in Event
      BY <1>3, ClosesOnward DEF CloseReason
    <2>2. b \in BOOLEAN
      OBVIOUS
    <2> HIDE DEF e, b
    <2>3. Append(r.closed, e) \in Seq(Event) /\ Extends(r.closed, Append(r.closed, e))
      BY <1>1, <2>1, ExtendsItself
    <2> DEFINE x == Append(r.closed, e)
    <2> HIDE DEF x
    <2>4. LeftOpen(r, m) = Standing(r.evs, r.pos, "out", x, b)
      BY <1>3 DEF LeftOpen, e, b, x
    <2>5. x \in Seq(Event) /\ Extends(r.closed, x)
      BY <2>3 DEF x
    <2>6. /\ Standing(r.evs, r.pos, "out", x, b) \in Progress(eoi)
          /\ Standing(r.evs, r.pos, "out", x, b).evs = r.evs
          /\ Standing(r.evs, r.pos, "out", x, b).pos = r.pos
          /\ Standing(r.evs, r.pos, "out", x, b).closed = x
        BY <1>1, <2>2, <2>5 DEF Standing, Progress
    <2>7. Sound(r) => Extends(r.evs, x)
      BY <1>1, <2>5, ExtendsOn DEF Sound
    <2>8. Extends(r.evs, r.evs)
      BY <1>1, ExtendsItself
    <2> QED BY <1>1, <2>4, <2>6, <2>7, <2>8 DEF Onward, Sound
  <1> QED BY <1>2, <1>3

\* A reading that runs out of input stays where it was, with no master ended yet.
LEMMA OutOfInputOnward ==
  ASSUME NEW eoi \in Nat, NEW r \in Progress(eoi)
  PROVE  Onward(eoi, r, OutOfInput(r)) /\ Sound(OutOfInput(r)) /\ OutOfInput(r).stop = "out"
         /\ OutOfInput(r).evs = r.evs /\ OutOfInput(r).closed = r.evs
         /\ OutOfInput(r).pos = r.pos /\ OutOfInput(r).short = FALSE
  <1>1. r.evs \in Seq(Event) /\ r.pos \in 0..eoi /\ r.pos <= r.pos
    BY DEF Progress
  <1>2. /\ OutOfInput(r) \in Progress(eoi)
        /\ OutOfInput(r).evs = r.evs /\ OutOfInput(r).closed = r.evs
        /\ OutOfInput(r).pos = r.pos /\ OutOfInput(r).stop = "out" /\ OutOfInput(r).short = FALSE
    BY <1>1 DEF OutOfInput, Standing, Progress
  <1>3. Extends(r.evs, r.evs)
    BY <1>1, ExtendsItself
  <1> QED BY <1>1, <1>2, <1>3 DEF Onward, Sound

\* So for a reading resumed after a master.
LEMMA ResumesOnward ==
  ASSUME NEW eoi \in Nat, NEW r \in Progress(eoi)
  PROVE  Onward(eoi, r, Resume(r)) /\ Resume(r).evs = r.evs /\ Resume(r).pos = r.pos
  <1>1. r.evs \in Seq(Event) /\ r.pos \in 0..eoi /\ r.pos <= r.pos /\ Extends(r.evs, r.evs)
    BY ExtendsItself DEF Progress
  <1>2. CASE r.stop = "end"
    <2>1. Resume(r) = Going(r.evs, r.pos)
      BY <1>2 DEF Resume
    <2> QED BY <1>1, <2>1, GoingIs DEF Onward
  <1>3. CASE r.stop # "end"
    <2>1. Resume(r) = r
      BY <1>3 DEF Resume
    <2> QED BY <1>1, <2>1 DEF Onward
  <1> QED BY <1>2, <1>3

\* So for a payload passed, there or not.
LEMMA PayloadOnward ==
  ASSUME NEW eoi \in Nat, NEW r \in Progress(eoi), NEW size \in Nat
  PROVE  Onward(eoi, r, PastPayload(r, size, eoi))
  <1>1. r.evs \in Seq(Event) /\ r.pos \in 0..eoi /\ Extends(r.evs, r.evs)
    BY ExtendsItself DEF Progress
  <1>2. CASE r.pos + size > eoi
    <2>1. "TruncatedPayload" \in StreamErrors
      BY DEF StreamErrors, Incomplete
    <2> QED BY <1>2, <2>1, StopsOnward DEF PastPayload
  <1>3. CASE ~(r.pos + size > eoi)
    <2> DEFINE q == r.pos + size
    <2>1. q \in 0..eoi /\ r.pos <= q
      BY <1>1, <1>3
    <2>2. PastPayload(r, size, eoi) = Going(r.evs, q)
      BY <1>3 DEF PastPayload
    <2> HIDE DEF q
    <2> QED BY <1>1, <2>1, <2>2, GoingIs DEF Onward
  <1> QED BY <1>2, <1>3

-----------------------------------------------------------------------------
(* The recursive descent is a function, and reads on.                      *)

\* list reads on wherever the position is past pos.
OnwardPast(list, eoi, pos) ==
  \A c \in Progress(eoi) \X Place : c[1].pos > pos => Onward(eoi, c[1], list[c])

\* What an element that can be read has for a header.
LEMMA DefectIsNone ==
  ASSUME NEW d \in DOMAIN Documents, NEW eoi \in Nat, NEW pos \in 0..eoi, NEW end \in Extent,
         Defect(HeaderAt(d, pos), pos, end, eoi) = "none"
  PROVE  /\ HeaderAt(d, pos) \in Header /\ HeaderLen(HeaderAt(d, pos)) \in 1..(eoi - pos)
         /\ KindOf[HeaderAt(d, pos).id] \in {"master", "leaf"}
         /\ HeaderAt(d, pos).size \in Extent
         /\ HeaderAt(d, pos).size = UnknownSize => KindOf[HeaderAt(d, pos).id] = "master"
  <1> DEFINE h == HeaderAt(d, pos)
  <1>0. VINTResult(h, eoi - pos) \in {"ok", "NeedMoreData", "VINTLength"}
    BY DEF VINTResult
  <1>1. VINTResult(h, eoi - pos) = "ok"
    BY <1>0 DEF Defect
  <1>2. eoi - pos \in Nat /\ pos \in Nat
    OBVIOUS
  <1>3. h \in Header /\ HeaderLen(h) \in 1..(eoi - pos)
    BY <1>1, <1>2, CompleteHeader
  <1>4. KindOf[h.id] \in Kind /\ h.size \in Extent
    BY <1>3, Assumption DEF DocumentsAssumption, Header, Extent
  <1> HIDE DEF h
  <1>5. h.size = UnknownSize => KindOf[h.id] = "master"
    BY <1>1 DEF Defect, h
  <1>6. KindOf[h.id] # "endmaster"
    BY <1>1, <1>5 DEF Defect, h
  <1> QED BY <1>3, <1>4, <1>5, <1>6 DEF Kind, h

\* A defect is a failure the code reports.
LEMMA DefectIsError ==
  ASSUME NEW h, NEW pos, NEW end, NEW eoi
  PROVE  Defect(h, pos, end, eoi) \in {"none"} \cup StreamErrors
  <1>1. VINTResult(h, eoi - pos) \in {"ok", "NeedMoreData", "VINTLength"}
    BY DEF VINTResult
  <1> QED BY <1>1 DEF Defect, StreamErrors, Malformed, Incomplete

\* Where a reading stands inside the element at r, in the list at m.
ReadAt(d, r, m) ==
  Going(Append(r.evs, ElementNode(KindOf[HeaderAt(d, r.pos).id], HeaderAt(d, r.pos), r.pos, m.level)),
        r.pos + HeaderLen(HeaderAt(d, r.pos)))

InsideOf(d, r, m) ==
  [om |-> [id |-> HeaderAt(d, r.pos).id, offset |-> r.pos, size |-> HeaderAt(d, r.pos).size],
   level |-> m.level + 1, end |-> EndOf(HeaderAt(d, r.pos), r.pos)]

\* Both are places past the header of the element.
LEMMA ReadAtIs ==
  ASSUME NEW d \in DOMAIN Documents, NEW eoi \in Nat, NEW r \in Progress(eoi), NEW m \in Place,
         Defect(HeaderAt(d, r.pos), r.pos, m.end, eoi) = "none"
  PROVE  /\ ReadAt(d, r, m) \in Progress(eoi) /\ Onward(eoi, r, ReadAt(d, r, m))
         /\ Sound(ReadAt(d, r, m)) /\ ReadAt(d, r, m).pos > r.pos
         /\ InsideOf(d, r, m) \in Place
         /\ <<ReadAt(d, r, m), InsideOf(d, r, m)>> \in Progress(eoi) \X Place
         /\ KindOf[HeaderAt(d, r.pos).id] = "leaf" => HeaderAt(d, r.pos).size \in Nat
         /\ HeaderAt(d, r.pos).size # UnknownSize => HeaderAt(d, r.pos).size \in Nat
  <1> DEFINE h == HeaderAt(d, r.pos)
             kind == KindOf[h.id]
  <1>1. r.pos \in 0..eoi /\ r.evs \in Seq(Event) /\ m.level \in Nat /\ m.end \in Extent
    BY DEF Progress, Place
  <1>2. /\ h \in Header /\ HeaderLen(h) \in 1..(eoi - r.pos) /\ kind \in {"master", "leaf"}
        /\ h.size \in Extent /\ (h.size = UnknownSize => kind = "master")
    BY <1>1, DefectIsNone
  <1>3. h.id \in ElementID
    BY <1>2 DEF Header
  <1> DEFINE e == ElementNode(kind, h, r.pos, m.level)
             q == r.pos + HeaderLen(h)
             evs == Append(r.evs, e)
  <1>4. q \in 0..eoi /\ r.pos < q /\ r.pos \in Nat
    BY <1>1, <1>2
  <1> HIDE DEF h, kind
  <1>5. e \in Event
    BY <1>1, <1>2, <1>4, ElementNodeType
  <1> HIDE DEF e, q
  <1>6. evs \in Seq(Event) /\ Extends(r.evs, evs)
    BY <1>1, <1>5, ExtendsItself
  <1>7. ReadAt(d, r, m) = Going(evs, q)
    BY DEF ReadAt, h, kind, e, q
  <1> HIDE DEF evs
  <1>8. Going(evs, q) \in Progress(eoi) /\ Sound(Going(evs, q))
        /\ Going(evs, q).evs = evs /\ Going(evs, q).pos = q
    BY <1>4, <1>6, GoingIs
  <1>9. r.pos <= q
    BY <1>4
  <1>10. Onward(eoi, r, Going(evs, q))
    BY <1>6, <1>8, <1>9 DEF Onward
  <1>11. EndOf(h, r.pos) \in Extent
    BY <1>1, <1>2 DEF EndOf, Extent
  <1>12. InsideOf(d, r, m) \in Place
    BY <1>1, <1>2, <1>3, <1>4, <1>11 DEF InsideOf, Place, OpenMaster, h
  <1>13. h.size # UnknownSize => h.size \in Nat
    BY <1>2 DEF Extent
  <1>14. kind = "leaf" => h.size \in Nat
    BY <1>2, <1>13
  <1> QED BY <1>4, <1>7, <1>8, <1>10, <1>12, <1>13, <1>14 DEF h, kind

\* What Past makes, in these terms.
LEMMA PastDef ==
  ASSUME NEW list, NEW d, NEW S, NEW eoi, NEW r, NEW m
  PROVE  Past(list, d, S, eoi, r, m) =
           IF KindOf[HeaderAt(d, r.pos).id] = "leaf"
              \/ (r.pos \in S /\ HeaderAt(d, r.pos).size # UnknownSize)
           THEN PastPayload(ReadAt(d, r, m), HeaderAt(d, r.pos).size, eoi)
           ELSE IF r.pos \in S THEN Stop(ReadAt(d, r, m), "SkipUnknownSize")
           ELSE Resume(list[<<ReadAt(d, r, m), InsideOf(d, r, m)>>])
  BY DEF Past, ReadAt, InsideOf

\* An element that can be read takes the reading past it.
LEMMA PastOnward ==
  ASSUME NEW d \in DOMAIN Documents, NEW S, NEW eoi \in Nat,
         NEW r \in Progress(eoi), NEW m \in Place, NEW list, OnwardPast(list, eoi, r.pos),
         Defect(HeaderAt(d, r.pos), r.pos, m.end, eoi) = "none"
  PROVE  /\ Onward(eoi, r, Past(list, d, S, eoi, r, m))
         /\ Past(list, d, S, eoi, r, m).pos > r.pos
         /\ <<Past(list, d, S, eoi, r, m), m>> \in Progress(eoi) \X Place
  <1> DEFINE h == HeaderAt(d, r.pos)
             read == ReadAt(d, r, m)
             into == InsideOf(d, r, m)
             past == Past(list, d, S, eoi, r, m)
             leaf == KindOf[h.id] = "leaf" \/ (r.pos \in S /\ h.size # UnknownSize)
  <1>1. /\ read \in Progress(eoi) /\ Onward(eoi, r, read) /\ read.pos > r.pos
        /\ <<read, into>> \in Progress(eoi) \X Place
        /\ (KindOf[h.id] = "leaf" => h.size \in Nat) /\ (h.size # UnknownSize => h.size \in Nat)
    BY ReadAtIs
  <1>2. past = IF leaf THEN PastPayload(read, h.size, eoi)
               ELSE IF r.pos \in S THEN Stop(read, "SkipUnknownSize")
               ELSE Resume(list[<<read, into>>])
    BY PastDef
  <1> HIDE DEF h, read, into, past
  <1>3. Onward(eoi, read, past)
    <2>1. CASE leaf
      <3>1. h.size \in Nat
        BY <1>1, <2>1
      <3> QED BY <1>1, <1>2, <2>1, <3>1, PayloadOnward
    <2>2. CASE ~leaf /\ r.pos \in S
      <3>1. "SkipUnknownSize" \in StreamErrors
        BY DEF StreamErrors
      <3>2. Onward(eoi, read, Stop(read, "SkipUnknownSize"))
        BY <1>1, <3>1, StopsOnward
      <3> QED BY <1>2, <2>2, <3>2
    <2>3. CASE ~leaf /\ ~(r.pos \in S)
      <3> DEFINE v == list[<<read, into>>]
      <3>1. <<read, into>>[1] = read
        OBVIOUS
      <3>2. Onward(eoi, read, v)
        BY <1>1, <3>1 DEF OnwardPast
      <3>3. past = Resume(v)
        BY <1>2, <2>3
      <3> HIDE DEF v
      <3>4. v \in Progress(eoi)
        BY <3>2 DEF Onward
      <3>5. Onward(eoi, v, Resume(v))
        BY <3>4, ResumesOnward
      <3> QED BY <1>1, <3>2, <3>3, <3>4, <3>5, OnwardOn
    <2> QED BY <2>1, <2>2, <2>3
  <1>4. Onward(eoi, r, past)
    BY <1>1, <1>3, OnwardOn
  <1>5. past \in Progress(eoi) /\ read.pos <= past.pos
    BY <1>3 DEF Onward
  <1>6. past.pos > r.pos
    BY <1>1, <1>5 DEF Progress
  <1> QED BY <1>4, <1>5, <1>6 DEF past

\* And so does the list it is in.
LEMMA ReadOnOnward ==
  ASSUME NEW d \in DOMAIN Documents, NEW S, NEW eoi \in Nat,
         NEW r \in Progress(eoi), NEW m \in Place, NEW list, OnwardPast(list, eoi, r.pos)
  PROVE  Onward(eoi, r, ReadOn(list, d, S, eoi, r, m))
  <1> DEFINE h == HeaderAt(d, r.pos)
             why == Defect(h, r.pos, m.end, eoi)
             past == Past(list, d, S, eoi, r, m)
             v == ReadOn(list, d, S, eoi, r, m)
             declared == m.level # 0 /\ m.end # UnknownSize /\ r.pos >= m.end
             boundary == m.level # 0 /\ m.om.size = UnknownSize /\ <<m.om.id, h.id>> \in Boundary
  <1>0. r.pos \in 0..eoi /\ r.evs \in Seq(Event) /\ r.stop \in {"go", "end", "fail", "out"}
        /\ r.pos <= r.pos /\ Extends(r.evs, r.evs)
    BY ExtendsItself DEF Progress
  <1>a. "DeclaredEnd" \in CloseReason /\ "Boundary" \in CloseReason
    BY DEF CloseReason
  <1>1. v = IF r.stop = "out" THEN LeftOpen(r, m)
            ELSE IF r.stop # "go" THEN r
            ELSE IF declared THEN Close(r, m, "DeclaredEnd")
            ELSE IF r.pos = eoi THEN LeftOpen(OutOfInput(r), m)
            ELSE IF why # "none" THEN Stop(r, why)
            ELSE IF boundary THEN Close(r, m, "Boundary")
            ELSE list[<<past, m>>]
    BY DEF ReadOn
  <1>2. r.stop = "out" => Onward(eoi, r, LeftOpen(r, m))
    BY LeftOpenOnward
  <1>3. Onward(eoi, r, r)
    BY <1>0 DEF Onward
  <1>4. declared => Onward(eoi, r, Close(r, m, "DeclaredEnd"))
    BY <1>a, ClosesOnward
  <1>5. boundary => Onward(eoi, r, Close(r, m, "Boundary"))
    BY <1>a, ClosesOnward
  <1>6. why # "none" => Onward(eoi, r, Stop(r, why))
    BY DefectIsError, StopsOnward
  <1>7. Onward(eoi, r, LeftOpen(OutOfInput(r), m))
    <2> DEFINE o == OutOfInput(r)
    <2>1. Onward(eoi, r, o) /\ o.stop = "out"
      BY OutOfInputOnward
    <2> HIDE DEF o
    <2>2. o \in Progress(eoi)
      BY <2>1 DEF Onward
    <2>3. Onward(eoi, o, LeftOpen(o, m))
      BY <2>1, <2>2, LeftOpenOnward
    <2>4. Onward(eoi, r, LeftOpen(o, m))
      BY <2>1, <2>2, <2>3, OnwardOn
    <2> QED BY <2>4 DEF o
  <1>8. why = "none" => Onward(eoi, r, list[<<past, m>>])
    <2> SUFFICES ASSUME why = "none" PROVE Onward(eoi, r, list[<<past, m>>])
      OBVIOUS
    <2>1. Onward(eoi, r, past) /\ past.pos > r.pos /\ <<past, m>> \in Progress(eoi) \X Place
      BY PastOnward
    <2> HIDE DEF past
    <2>2. <<past, m>>[1] = past
      OBVIOUS
    <2>3. Onward(eoi, past, list[<<past, m>>])
      BY <2>1, <2>2 DEF OnwardPast
    <2>4. past \in Progress(eoi)
      BY <2>1
    <2> QED BY <2>1, <2>3, <2>4, OnwardOn
  <1> HIDE DEF why, past, declared, boundary, v
  <1> QED BY <1>1, <1>2, <1>3, <1>4, <1>5, <1>6, <1>7, <1>8 DEF v

\* Lists that agree on what is past r read on alike from r.
LEMMA ReadOnSame ==
  ASSUME NEW d \in DOMAIN Documents, NEW S, NEW eoi \in Nat,
         NEW r \in Progress(eoi), NEW m \in Place, NEW f, NEW g, OnwardPast(f, eoi, r.pos),
         \A c \in Progress(eoi) \X Place : c[1].pos > r.pos => g[c] = f[c]
  PROVE  ReadOn(g, d, S, eoi, r, m) = ReadOn(f, d, S, eoi, r, m)
  <1> DEFINE h == HeaderAt(d, r.pos)
             why == Defect(h, r.pos, m.end, eoi)
  <1>1. ASSUME why = "none"
        PROVE  g[<<Past(g, d, S, eoi, r, m), m>>] = f[<<Past(f, d, S, eoi, r, m), m>>]
    <2> DEFINE read == ReadAt(d, r, m)
               into == InsideOf(d, r, m)
    <2>1. <<read, into>> \in Progress(eoi) \X Place /\ read.pos > r.pos
      BY <1>1, ReadAtIs
    <2> HIDE DEF read, into
    <2>2. <<read, into>>[1] = read
      OBVIOUS
    <2>3. g[<<read, into>>] = f[<<read, into>>]
      BY <2>1, <2>2
    <2>4. Past(g, d, S, eoi, r, m) = Past(f, d, S, eoi, r, m)
      BY <2>3, PastDef DEF read, into
    <2> DEFINE past == Past(f, d, S, eoi, r, m)
    <2>5. past.pos > r.pos /\ <<past, m>> \in Progress(eoi) \X Place
      BY <1>1, PastOnward
    <2> HIDE DEF past
    <2>6. <<past, m>>[1] = past
      OBVIOUS
    <2>7. g[<<past, m>>] = f[<<past, m>>]
      BY <2>5, <2>6
    <2> QED BY <2>4, <2>7 DEF past
  <1> QED BY <1>1 DEF ReadOn

\* list reads as it should wherever the position is at least pos.
ReadsFrom(list, d, S, eoi, pos) ==
  \A c \in Progress(eoi) \X Place :
    c[1].pos >= pos => /\ list[c] = ReadOn(list, d, S, eoi, c[1], c[2])
                       /\ Onward(eoi, c[1], list[c])

\* There is a list that reads as it should, built from the end of the input backwards.
LEMMA AListReads ==
  ASSUME NEW d \in DOMAIN Documents, NEW S, NEW eoi \in Nat
  PROVE  \E list : ReadsFrom(list, d, S, eoi, 0)
  <1> DEFINE Lists == Progress(eoi) \X Place
             Back(k) == \E list : ReadsFrom(list, d, S, eoi, eoi + 1 - k)
             T == {k \in 0..(eoi + 1) : Back(k)}
  <1>0. \A c \in Lists : c[1] \in Progress(eoi) /\ c[2] \in Place /\ c[1].pos \in 0..eoi
    BY DEF Progress
  <1>1. 0 \in T
    <2> DEFINE list == [c \in Lists |-> c]
    <2>1. \A c \in Lists : ~(c[1].pos >= eoi + 1 - 0)
      BY <1>0
    <2> HIDE DEF list
    <2>2. ReadsFrom(list, d, S, eoi, eoi + 1 - 0)
      BY <2>1 DEF ReadsFrom
    <2> HIDE DEF Lists
    <2> QED BY <2>2
  <1>2. ASSUME NEW k \in 1..(eoi + 1), k - 1 \in T PROVE k \in T
    <2> DEFINE at == eoi + 1 - k
    <2>0. at \in 0..eoi /\ eoi + 1 - (k - 1) = at + 1
      OBVIOUS
    <2>1. PICK f : ReadsFrom(f, d, S, eoi, at + 1)
      BY <1>2, <2>0
    <2> DEFINE g == [c \in Lists |-> IF c[1].pos >= at + 1 THEN f[c]
                                     ELSE ReadOn(f, d, S, eoi, c[1], c[2])]
    <2> HIDE DEF at
    <2>2. \A c \in Lists : g[c] = IF c[1].pos >= at + 1 THEN f[c]
                                  ELSE ReadOn(f, d, S, eoi, c[1], c[2])
      OBVIOUS
    <2> HIDE DEF g
    <2>3. ASSUME NEW c \in Lists, c[1].pos >= at
          PROVE  /\ g[c] = ReadOn(g, d, S, eoi, c[1], c[2])
                 /\ Onward(eoi, c[1], g[c])
      <3> DEFINE r == c[1]
                 m == c[2]
      <3>1. r \in Progress(eoi) /\ m \in Place /\ r.pos \in 0..eoi
        BY <1>0
      <3>2. \A x \in Lists : x[1].pos > r.pos => x[1].pos >= at + 1
        BY <1>0, <2>0, <2>3, <3>1
      <3>3. OnwardPast(f, eoi, r.pos)
        BY <2>1, <3>2 DEF OnwardPast, ReadsFrom
      <3>4. \A x \in Lists : x[1].pos > r.pos => g[x] = f[x]
        BY <2>2, <3>2
      <3> HIDE DEF r, m
      <3>5. ReadOn(g, d, S, eoi, r, m) = ReadOn(f, d, S, eoi, r, m)
        BY <3>1, <3>3, <3>4, ReadOnSame
      <3>6. Onward(eoi, r, ReadOn(f, d, S, eoi, r, m))
        BY <3>1, <3>3, ReadOnOnward
      <3>7. CASE c[1].pos >= at + 1
        <4>1. f[c] = ReadOn(f, d, S, eoi, r, m)
          BY <2>1, <3>7 DEF ReadsFrom, r, m
        <4>2. g[c] = f[c]
          BY <2>2, <3>7
        <4> QED BY <3>5, <3>6, <4>1, <4>2 DEF r, m
      <3>8. CASE ~(c[1].pos >= at + 1)
        <4>1. g[c] = ReadOn(f, d, S, eoi, r, m)
          BY <2>2, <3>8 DEF r, m
        <4> QED BY <3>5, <3>6, <4>1 DEF r, m
      <3> QED BY <3>7, <3>8
    <2>4. ReadsFrom(g, d, S, eoi, at)
      BY <2>3 DEF ReadsFrom
    <2>5. Back(k)
      BY <2>4 DEF at
    <2> HIDE DEF Back
    <2> QED BY <2>5
  <1> HIDE DEF Back
  <1>3. eoi + 1 \in Nat /\ \A k \in 1..(eoi + 1) : k - 1 \in T => k \in T
    BY <1>2
  <1> HIDE DEF T
  <1>4. 0..(eoi + 1) \subseteq T
    BY <1>1, <1>3, BoundedInduction
  <1>5. eoi + 1 \in T
    BY <1>4
  <1>6. Back(eoi + 1)
    BY <1>5 DEF T
  <1>7. eoi + 1 - (eoi + 1) = 0
    OBVIOUS
  <1> QED BY <1>6, <1>7 DEF Back

\* So the recursive descent is one that does.
LEMMA ChildrenRead ==
  ASSUME NEW d \in DOMAIN Documents, NEW S, NEW eoi \in Nat
  PROVE  ReadsFrom(Children(d, S, eoi), d, S, eoi, 0)
  <1> DEFINE Lists == Progress(eoi) \X Place
             Value(f, c) == ReadOn(f, d, S, eoi, c[1], c[2])
             list == CHOOSE f : f = [c \in Lists |-> Value(f, c)]
  <1>0. \A c \in Lists : c[1] \in Progress(eoi) /\ c[2] \in Place /\ c[1].pos \in 0..eoi
                         /\ c[1].pos >= 0
    BY DEF Progress
  <1>1. PICK g : ReadsFrom(g, d, S, eoi, 0)
    BY AListReads
  <1> DEFINE f == [c \in Lists |-> g[c]]
  <1>2. \A c \in Lists : f[c] = g[c]
    OBVIOUS
  <1>3. f = [c \in Lists |-> f[c]]
    OBVIOUS
  <1> HIDE DEF f
  <1>4. ASSUME NEW c \in Lists PROVE f[c] = Value(f, c)
    <2>1. g[c] = Value(g, c)
      BY <1>0, <1>1 DEF ReadsFrom
    <2>2. OnwardPast(g, eoi, c[1].pos)
      BY <1>0, <1>1 DEF ReadsFrom, OnwardPast
    <2>3. Value(f, c) = Value(g, c)
      <3> DEFINE r == c[1]
                 m == c[2]
      <3>1. r \in Progress(eoi) /\ m \in Place
        BY <1>0
      <3> HIDE DEF r, m
      <3>2. ReadOn(f, d, S, eoi, r, m) = ReadOn(g, d, S, eoi, r, m)
        BY <1>2, <2>2, <3>1, ReadOnSame DEF r, m
      <3> QED BY <3>2 DEF r, m
    <2> QED BY <1>2, <2>1, <2>3
  <1> HIDE DEF Value
  <1>5. f = [c \in Lists |-> Value(f, c)]
    BY <1>3, <1>4
  <1>6. list = [c \in Lists |-> Value(list, c)]
    BY <1>5, Zenon
  <1>7. Children(d, S, eoi) = list
    BY Zenon DEF Children, Value
  <1> HIDE DEF list
  <1>8. \A c \in Lists : list[c] = Value(list, c)
    BY <1>6
  <1>9. \A c \in Lists : Onward(eoi, c[1], list[c])
    <2> DEFINE T == {k \in 0..eoi : \A c \in Lists : c[1].pos = eoi - k => Onward(eoi, c[1], list[c])}
    <2>1. ASSUME NEW k \in 0..eoi, \A j \in 0..(k - 1) : j \in T PROVE k \in T
      <3> SUFFICES ASSUME NEW c \in Lists, c[1].pos = eoi - k PROVE Onward(eoi, c[1], list[c])
        OBVIOUS
      <3>1. ASSUME NEW x \in Lists, x[1].pos > c[1].pos PROVE Onward(eoi, x[1], list[x])
        <4> DEFINE j == eoi - x[1].pos
        <4>1. j \in 0..(k - 1) /\ x[1].pos = eoi - j
          BY <1>0, <3>1
        <4> HIDE DEF j
        <4> QED BY <2>1, <4>1
      <3>2. OnwardPast(list, eoi, c[1].pos)
        BY <3>1 DEF OnwardPast
      <3> DEFINE r == c[1]
                 m == c[2]
      <3>3. r \in Progress(eoi) /\ m \in Place
        BY <1>0
      <3> HIDE DEF r, m
      <3>4. Onward(eoi, r, ReadOn(list, d, S, eoi, r, m))
        BY <3>2, <3>3, ReadOnOnward DEF r
      <3> QED BY <1>8, <3>4 DEF Value, r, m
    <2> HIDE DEF T
    <2>2. 0..eoi \subseteq T
      BY <2>1, StrongInduction
    <2> SUFFICES ASSUME NEW c \in Lists PROVE Onward(eoi, c[1], list[c])
      OBVIOUS
    <2> DEFINE k == eoi - c[1].pos
    <2>3. k \in 0..eoi /\ c[1].pos = eoi - k
      BY <1>0
    <2> HIDE DEF k
    <2>4. k \in T
      BY <2>2, <2>3
    <2> QED BY <2>3, <2>4 DEF T
  <1> QED BY <1>7, <1>8, <1>9 DEF ReadsFrom, Value

\* In the terms the cursor needs.
LEMMA ReadingGoesOn ==
  ASSUME NEW d \in DOMAIN Documents, NEW S, NEW eoi \in Nat,
         NEW r \in Progress(eoi), NEW m \in Place
  PROVE  /\ Children(d, S, eoi)[<<r, m>>] = ReadOn(Children(d, S, eoi), d, S, eoi, r, m)
         /\ Onward(eoi, r, Children(d, S, eoi)[<<r, m>>])
         /\ OnwardPast(Children(d, S, eoi), eoi, r.pos)
  <1> DEFINE list == Children(d, S, eoi)
             c == <<r, m>>
  <1>0. \A x \in Progress(eoi) \X Place : x[1].pos \in Nat /\ x[1].pos >= 0
    BY DEF Progress
  <1>1. ReadsFrom(list, d, S, eoi, 0)
    BY ChildrenRead
  <1> HIDE DEF list
  <1>2. c \in Progress(eoi) \X Place /\ c[1] = r /\ c[2] = m
    OBVIOUS
  <1> HIDE DEF c
  <1>3. list[c] = ReadOn(list, d, S, eoi, c[1], c[2]) /\ Onward(eoi, c[1], list[c])
    BY <1>0, <1>1, <1>2 DEF ReadsFrom
  <1>4. OnwardPast(list, eoi, r.pos)
    BY <1>0, <1>1 DEF ReadsFrom, OnwardPast
  <1> QED BY <1>2, <1>3, <1>4 DEF list, c

-----------------------------------------------------------------------------
(* How a reading ends.                                                     *)

\* A list of elements ends, and at the top level not as a master does.
ListEnds(r, m, v) == r.stop # "end" => v.stop # "go" /\ (m.level = 0 => v.stop # "end")

\* That is so of every list the recursive descent reads.
LEMMA ChildrenEnd ==
  ASSUME NEW d \in DOMAIN Documents, NEW S, NEW eoi \in Nat,
         NEW r \in Progress(eoi), NEW m \in Place
  PROVE  ListEnds(r, m, Children(d, S, eoi)[<<r, m>>])
  <1> DEFINE Lists == Progress(eoi) \X Place
             list == Children(d, S, eoi)
             T == {k \in 0..eoi : \A c \in Lists : c[1].pos = eoi - k => ListEnds(c[1], c[2], list[c])}
  <1>0. \A c \in Lists : c[1] \in Progress(eoi) /\ c[2] \in Place /\ c[1].pos \in 0..eoi
                         /\ c = <<c[1], c[2]>>
    BY DEF Progress
  <1>1. ASSUME NEW k \in 0..eoi, \A j \in 0..(k - 1) : j \in T PROVE k \in T
    <2> SUFFICES ASSUME NEW c \in Lists, c[1].pos = eoi - k PROVE ListEnds(c[1], c[2], list[c])
      OBVIOUS
    <2> DEFINE s == c[1]
               n == c[2]
               past == Past(list, d, S, eoi, s, n)
               why == Defect(HeaderAt(d, s.pos), s.pos, n.end, eoi)
    <2>1. ASSUME NEW x \in Lists, x[1].pos > s.pos PROVE ListEnds(x[1], x[2], list[x])
      <3> DEFINE j == eoi - x[1].pos
      <3>1. j \in 0..(k - 1) /\ x[1].pos = eoi - j
        BY <1>0, <2>1
      <3> HIDE DEF j
      <3> QED BY <1>1, <3>1
    <2>2. s \in Progress(eoi) /\ n \in Place /\ c = <<s, n>>
      BY <1>0
    <2>3. s.stop \in {"go", "end", "fail", "out"}
      BY <2>2 DEF Progress
    <2> HIDE DEF T, s, n
    <2>4. list[c] = ReadOn(list, d, S, eoi, s, n) /\ OnwardPast(list, eoi, s.pos)
      BY <2>2, ReadingGoesOn
    <2>5. ASSUME why = "none"
          PROVE  ListEnds(s, n, list[<<past, n>>])
      <3>1. past.pos > s.pos /\ <<past, n>> \in Lists
        BY <2>2, <2>4, <2>5, PastOnward
      <3>2. past.stop # "end"
        <4> DEFINE read == ReadAt(d, s, n)
                   v == list[<<read, InsideOf(d, s, n)>>]
                   size == HeaderAt(d, s.pos).size
        <4>1. \/ past = PastPayload(read, size, eoi)
              \/ past = Stop(read, "SkipUnknownSize")
              \/ past = Resume(v)
          BY PastDef
        <4> HIDE DEF read, v, past, size
        <4>2. PastPayload(read, size, eoi).stop # "end"
          BY DEF PastPayload, Stop, Going, Standing
        <4>3. Stop(read, "SkipUnknownSize").stop # "end"
          BY DEF Stop, Standing
        <4>4. Resume(v).stop # "end"
          BY DEF Resume, Going, Standing
        <4> QED BY <4>1, <4>2, <4>3, <4>4
      <3> HIDE DEF past
      <3>3. <<past, n>>[1] = past /\ <<past, n>>[2] = n
        OBVIOUS
      <3>4. ListEnds(past, n, list[<<past, n>>])
        BY <2>1, <3>1, <3>3
      <3> QED BY <3>2, <3>4 DEF ListEnds
    <2> HIDE DEF past, why, list
    <2>6. ListEnds(s, n, ReadOn(list, d, S, eoi, s, n))
      BY <2>3, <2>5 DEF ReadOn, ListEnds, LeftOpen, OutOfInput, Close, Stop, Standing, past, why
    <2> QED BY <2>2, <2>4, <2>6 DEF s, n, list
  <1> HIDE DEF T
  <1>2. 0..eoi \subseteq T
    BY <1>1, StrongInduction
  <1> DEFINE k == eoi - r.pos
             c == <<r, m>>
  <1>3. k \in 0..eoi /\ r.pos = eoi - k
    BY DEF Progress
  <1>4. c \in Lists /\ c[1] = r /\ c[2] = m
    OBVIOUS
  <1> HIDE DEF k
  <1>5. k \in T
    BY <1>2, <1>3
  <1> HIDE DEF c, list
  <1>6. ListEnds(c[1], c[2], list[c])
    BY <1>3, <1>4, <1>5 DEF T
  <1> QED BY <1>4, <1>6 DEF c, list

-----------------------------------------------------------------------------
(* The readings under way, one inside the other.                           *)

\* The list of elements inside the i outermost of the masters o, entered as s says.
PlaceOf(o, s, i) == IF i = 0 THEN NoPlace ELSE [om |-> o[i], level |-> i, end |-> s[i].end]

\* From r in the innermost list each goes on where the one inside it ended.
NestedReading(list, lev, o, s, r) ==
  /\ lev[Len(o)] = list[<<r, PlaceOf(o, s, Len(o))>>]
  /\ \A i \in 0..(Len(o) - 1) : lev[i] = list[<<Resume(lev[i + 1]), PlaceOf(o, s, i)>>]

\* Going on like that the whole input is read.
Reaches(d, S, eoi, o, s, r) ==
  \E lev : /\ NestedReading(Children(d, S, eoi), lev, o, s, r)
           /\ WholeInput(d, S, eoi) = Said(lev[0])

\* Two stacks of the masters around a place.
Stacks(o, s) == o \in Seq(OpenMaster) /\ s \in Seq(Frame) /\ Len(o) = Len(s)

\* These are places, with the masters and the ends the two stacks have.
LEMMA PlaceOfIs ==
  ASSUME NEW o, NEW s, Stacks(o, s), NEW i \in 0..Len(o)
  PROVE  /\ Len(o) \in Nat /\ PlaceOf(o, s, i) \in Place /\ PlaceOf(o, s, i).level = i
         /\ i # 0 => PlaceOf(o, s, i).om = o[i] /\ PlaceOf(o, s, i).end = s[i].end
                     /\ s[i] \in Frame /\ o[i] \in OpenMaster
         /\ i = 0 => PlaceOf(o, s, i).end = UnknownSize
  <1>1. Len(o) \in Nat /\ (i # 0 => i \in 1..Len(o) /\ i \in 1..Len(s) /\ i \in Nat)
    BY DEF Stacks
  <1>2. i # 0 => s[i] \in Frame /\ o[i] \in OpenMaster
    BY <1>1 DEF Stacks
  <1>3. i # 0 => s[i].end \in Extent
    BY <1>2 DEF Frame
  <1> QED BY <1>1, <1>2, <1>3 DEF PlaceOf, NoPlace, Place, Extent

\* All of them read on from r.
LEMMA NestedOnward ==
  ASSUME NEW d \in DOMAIN Documents, NEW S, NEW eoi \in Nat, NEW o, NEW s, Stacks(o, s),
         NEW r \in Progress(eoi), NEW lev, NestedReading(Children(d, S, eoi), lev, o, s, r)
  PROVE  \A i \in 0..Len(o) : /\ Onward(eoi, r, lev[i])
                              /\ i = 0 /\ r.stop # "end" => lev[i].stop \notin {"go", "end"}
  <1> DEFINE list == Children(d, S, eoi)
             n == Len(o)
             Good(i) == /\ Onward(eoi, r, lev[i])
                        /\ r.stop # "end" => /\ lev[i].stop # "go"
                                             /\ i = 0 => lev[i].stop # "end"
             T == {i \in 0..n : Good(i)}
  <1>0. n \in Nat
    BY DEF Stacks
  <1>1. n \in T
    <2>1. PlaceOf(o, s, n) \in Place /\ PlaceOf(o, s, n).level = n
      BY <1>0, PlaceOfIs
    <2>2. lev[n] = list[<<r, PlaceOf(o, s, n)>>]
      BY DEF NestedReading
    <2>3. Onward(eoi, r, lev[n])
      BY <2>1, <2>2, ReadingGoesOn
    <2>4. ListEnds(r, PlaceOf(o, s, n), lev[n])
      BY <2>1, <2>2, ChildrenEnd
    <2> QED BY <1>0, <2>1, <2>3, <2>4 DEF ListEnds
  <1>2. ASSUME NEW i \in 0..(n - 1), i + 1 \in T PROVE i \in T
    <2> DEFINE x == lev[i + 1]
               y == Resume(x)
    <2>0. i \in 0..n
      BY <1>0
    <2>1. PlaceOf(o, s, i) \in Place /\ PlaceOf(o, s, i).level = i
      BY <2>0, PlaceOfIs
    <2>2. Onward(eoi, r, x)
      BY <1>2
    <2>3. lev[i] = list[<<y, PlaceOf(o, s, i)>>]
      BY DEF NestedReading
    <2> HIDE DEF x
    <2>4. x \in Progress(eoi)
      BY <2>2 DEF Onward
    <2>5. Onward(eoi, x, y)
      BY <2>4, ResumesOnward
    <2>6. y.stop # "end"
      BY DEF Resume, Going, Standing
    <2> HIDE DEF y
    <2>7. y \in Progress(eoi) /\ Onward(eoi, r, y)
      <3>1. y \in Progress(eoi)
        BY <2>5 DEF Onward
      <3> QED BY <2>2, <2>4, <2>5, <3>1, OnwardOn
    <2>8. Onward(eoi, y, lev[i])
      BY <2>1, <2>3, <2>7, ReadingGoesOn
    <2>9. ListEnds(y, PlaceOf(o, s, i), lev[i])
      BY <2>1, <2>3, <2>7, ChildrenEnd
    <2>10. Onward(eoi, r, lev[i])
      BY <2>7, <2>8, OnwardOn
    <2> QED BY <2>0, <2>1, <2>6, <2>9, <2>10 DEF ListEnds
  <1> HIDE DEF T
  <1>3. 0..n \subseteq T
    BY <1>0, <1>1, <1>2, DownwardInduction
  <1>4. \A i \in 0..n : Good(i)
    BY <1>3 DEF T
  <1> QED BY <1>4

\* What was said is the beginning of what the input says.
LEMMA ReachesPrefix ==
  ASSUME NEW d \in DOMAIN Documents, NEW S, NEW eoi \in Nat, NEW o, NEW s, Stacks(o, s),
         NEW r \in Progress(eoi), r.stop # "end", Sound(r), Reaches(d, S, eoi, o, s, r)
  PROVE  Extends(r.evs, WholeInput(d, S, eoi)) /\ WholeInput(d, S, eoi) \in Seq(Event)
  <1>1. PICK lev : /\ NestedReading(Children(d, S, eoi), lev, o, s, r)
                   /\ WholeInput(d, S, eoi) = Said(lev[0])
    BY DEF Reaches
  <1> DEFINE v == lev[0]
  <1>2. 0 \in 0..Len(o)
    BY DEF Stacks
  <1>3. Onward(eoi, r, v) /\ v.stop \notin {"go", "end"}
    BY <1>1, <1>2, NestedOnward
  <1> HIDE DEF v
  <1>4. /\ v \in Progress(eoi) /\ Extends(r.evs, v.evs) /\ Sound(v)
    BY <1>3 DEF Onward
  <1>5. v.evs \in Seq(Event) /\ v.closed \in Seq(Event) /\ r.evs \in Seq(Event)
        /\ v.stop \in {"fail", "out"}
    BY <1>3, <1>4 DEF Progress
  <1>6. v.stop = "out" => Extends(v.evs, v.closed)
    BY <1>4 DEF Sound
  <1> DEFINE u == Outcome("fail", "UnfinishedMaster")
             e == Outcome("eof", "none")
  <1>7. u \in Event /\ e \in Event
    BY OutcomeTypes DEF StreamErrors, Incomplete
  <1> HIDE DEF u, e
  <1>8. /\ Append(v.evs, u) \in Seq(Event) /\ Extends(v.evs, Append(v.evs, u))
        /\ Append(v.closed, e) \in Seq(Event) /\ Extends(v.closed, Append(v.closed, e))
    BY <1>5, <1>7, ExtendsItself
  <1>9. Said(v) \in {v.evs, Append(v.evs, u), Append(v.closed, e)}
        /\ (Said(v) = v.evs \/ Said(v) = Append(v.evs, u)
              \/ (v.stop = "out" /\ Said(v) = Append(v.closed, e)))
    BY <1>5 DEF Said, u, e
  <1>10. Said(v) \in Seq(Event)
    BY <1>5, <1>8, <1>9
  <1>11. v.stop = "out" => Extends(v.evs, Append(v.closed, e))
    BY <1>5, <1>6, <1>8, ExtendsOn
  <1>12. Extends(v.evs, v.evs)
    BY <1>5, ExtendsItself
  <1>13. Extends(v.evs, Said(v))
    BY <1>8, <1>9, <1>11, <1>12
  <1> QED BY <1>1, <1>4, <1>5, <1>10, <1>13, ExtendsOn DEF v

-----------------------------------------------------------------------------
(* How the readings under way move.                                        *)

\* What says the same of the innermost list says the same of the input.
LEMMA ReachesSame ==
  ASSUME NEW d, NEW S, NEW eoi, NEW o, NEW s, NEW r, NEW x, Reaches(d, S, eoi, o, s, r),
         Children(d, S, eoi)[<<r, PlaceOf(o, s, Len(o))>>]
           = Children(d, S, eoi)[<<x, PlaceOf(o, s, Len(o))>>]
  PROVE  Reaches(d, S, eoi, o, s, x)
  BY DEF Reaches, NestedReading

\* The innermost master ends, and so does its list.
LEMMA ReachesPop ==
  ASSUME NEW d, NEW S, NEW eoi, NEW o, NEW s, Stacks(o, s), o # << >>, NEW r,
         Reaches(d, S, eoi, o, s, r)
  PROVE  /\ Stacks(Pop(o), Pop(s))
         /\ Reaches(d, S, eoi, Pop(o), Pop(s),
                    Resume(Children(d, S, eoi)[<<r, PlaceOf(o, s, Len(o))>>]))
  <1> DEFINE n == Len(o)
             list == Children(d, S, eoi)
  <1>1. o \in Seq(OpenMaster) /\ s \in Seq(Frame) /\ Len(o) = Len(s)
    BY DEF Stacks
  <1>2. n \in Nat /\ n # 0 /\ s # << >>
    BY <1>1, EmptySeq
  <1>3. /\ Pop(o) \in Seq(OpenMaster) /\ Len(Pop(o)) = n - 1
        /\ \A i \in 1..(n - 1) : Pop(o)[i] = o[i]
    BY <1>1, PopFacts
  <1>4. /\ Pop(s) \in Seq(Frame) /\ Len(Pop(s)) = n - 1
        /\ \A i \in 1..(n - 1) : Pop(s)[i] = s[i]
    BY <1>1, <1>2, PopFacts
  <1>5. \A i \in 0..(n - 1) : PlaceOf(Pop(o), Pop(s), i) = PlaceOf(o, s, i)
    BY <1>2, <1>3, <1>4 DEF PlaceOf
  <1>6. PICK lev : NestedReading(list, lev, o, s, r) /\ WholeInput(d, S, eoi) = Said(lev[0])
    BY DEF Reaches
  <1> HIDE DEF n, list
  <1>7. n - 1 \in 0..(n - 1) /\ (n - 1) + 1 = n
        /\ \A i \in 0..((n - 1) - 1) : i \in 0..(n - 1)
    BY <1>2
  <1>8. /\ lev[n] = list[<<r, PlaceOf(o, s, n)>>]
        /\ lev[n - 1] = list[<<Resume(lev[n]), PlaceOf(o, s, n - 1)>>]
    BY <1>6, <1>7 DEF NestedReading, n
  <1>9. NestedReading(list, lev, Pop(o), Pop(s), Resume(list[<<r, PlaceOf(o, s, n)>>]))
    <2>1. lev[Len(Pop(o))] = list[<<Resume(list[<<r, PlaceOf(o, s, n)>>]),
                                    PlaceOf(Pop(o), Pop(s), Len(Pop(o)))>>]
      BY <1>3, <1>5, <1>7, <1>8
    <2>2. ASSUME NEW i \in 0..(Len(Pop(o)) - 1)
          PROVE  lev[i] = list[<<Resume(lev[i + 1]), PlaceOf(Pop(o), Pop(s), i)>>]
      <3>1. i \in 0..(n - 1)
        BY <1>3, <1>7
      <3>2. lev[i] = list[<<Resume(lev[i + 1]), PlaceOf(o, s, i)>>]
        BY <1>6, <3>1 DEF NestedReading, n
      <3> QED BY <1>5, <3>1, <3>2
    <2> QED BY <2>1, <2>2 DEF NestedReading
  <1>10. Reaches(d, S, eoi, Pop(o), Pop(s), Resume(list[<<r, PlaceOf(o, s, n)>>]))
    BY <1>6, <1>9 DEF Reaches, list
  <1> QED BY <1>3, <1>4, <1>10 DEF Stacks, n, list

\* A master is entered: its list is read first.
LEMMA ReachesPush ==
  ASSUME NEW d, NEW S, NEW eoi, NEW o, NEW s, Stacks(o, s), NEW om \in OpenMaster, NEW f \in Frame,
         NEW x,
         Reaches(d, S, eoi, o, s,
                 Resume(Children(d, S, eoi)[<<x, [om |-> om, level |-> Len(o) + 1, end |-> f.end]>>]))
  PROVE  /\ Stacks(Append(o, om), Append(s, f))
         /\ Reaches(d, S, eoi, Append(o, om), Append(s, f), x)
  <1> DEFINE n == Len(o)
             list == Children(d, S, eoi)
             top == list[<<x, [om |-> om, level |-> n + 1, end |-> f.end]>>]
             p2 == Append(o, om)
             s2 == Append(s, f)
  <1>1. o \in Seq(OpenMaster) /\ s \in Seq(Frame) /\ Len(s) = n /\ n \in Nat
    BY DEF Stacks
  <1>2. /\ p2 \in Seq(OpenMaster) /\ Len(p2) = n + 1 /\ p2[n + 1] = om
        /\ \A i \in 1..n : p2[i] = o[i]
    BY <1>1
  <1>3. /\ s2 \in Seq(Frame) /\ Len(s2) = n + 1 /\ s2[n + 1] = f
        /\ \A i \in 1..n : s2[i] = s[i]
    BY <1>1
  <1>4. PICK lev : NestedReading(list, lev, o, s, Resume(top)) /\ WholeInput(d, S, eoi) = Said(lev[0])
    BY DEF Reaches
  <1>5. /\ lev[n] = list[<<Resume(top), PlaceOf(o, s, n)>>]
        /\ \A i \in 0..(n - 1) : lev[i] = list[<<Resume(lev[i + 1]), PlaceOf(o, s, i)>>]
    BY <1>4 DEF NestedReading
  <1> DEFINE lv == [i \in 0..(n + 1) |-> IF i = n + 1 THEN top ELSE lev[i]]
  <1>6. lv[n + 1] = top /\ \A i \in 0..n : lv[i] = lev[i]
    BY <1>1
  <1> HIDE DEF n, list, top, p2, s2, lv
  <1>7. PlaceOf(p2, s2, n + 1) = [om |-> om, level |-> n + 1, end |-> f.end]
        /\ \A i \in 0..n : PlaceOf(p2, s2, i) = PlaceOf(o, s, i)
    BY <1>1, <1>2, <1>3 DEF PlaceOf
  <1>8. NestedReading(list, lv, p2, s2, x)
    <2>1. lv[Len(p2)] = list[<<x, PlaceOf(p2, s2, Len(p2))>>]
      BY <1>2, <1>6, <1>7 DEF top
    <2>2. ASSUME NEW i \in 0..(Len(p2) - 1)
          PROVE  lv[i] = list[<<Resume(lv[i + 1]), PlaceOf(p2, s2, i)>>]
      <3>1. i \in 0..n
        BY <1>1, <1>2
      <3>2. CASE i = n
        BY <1>5, <1>6, <1>7, <3>1, <3>2
      <3>3. CASE i # n
        <4>1. i \in 0..(n - 1) /\ i + 1 \in 0..n
          BY <1>1, <3>1, <3>3
        <4> QED BY <1>5, <1>6, <1>7, <3>1, <4>1
      <3> QED BY <3>2, <3>3
    <2> QED BY <2>1, <2>2 DEF NestedReading
  <1>9. lv[0] = lev[0]
    BY <1>1, <1>6
  <1>10. Reaches(d, S, eoi, p2, s2, x)
    BY <1>4, <1>8, <1>9 DEF Reaches, list
  <1> QED BY <1>2, <1>3, <1>10 DEF Stacks, p2, s2

\* A failure inside is the failure of all of them.
LEMMA ReachesFail ==
  ASSUME NEW d \in DOMAIN Documents, NEW S, NEW eoi \in Nat, NEW o, NEW s, Stacks(o, s), NEW r,
         NEW x \in Progress(eoi), x.stop = "fail", Reaches(d, S, eoi, o, s, r),
         Children(d, S, eoi)[<<r, PlaceOf(o, s, Len(o))>>] = x
  PROVE  WholeInput(d, S, eoi) = x.evs
  <1> DEFINE n == Len(o)
             list == Children(d, S, eoi)
  <1>1. PICK lev : NestedReading(list, lev, o, s, r) /\ WholeInput(d, S, eoi) = Said(lev[0])
    BY DEF Reaches
  <1> DEFINE T == {i \in 0..n : lev[i] = x}
  <1>2. n \in Nat
    BY DEF Stacks
  <1>3. n \in T
    BY <1>1, <1>2 DEF NestedReading
  <1>4. ASSUME NEW i \in 0..(n - 1), i + 1 \in T PROVE i \in T
    <2>1. i \in 0..n
      BY <1>2
    <2>2. lev[i] = list[<<Resume(x), PlaceOf(o, s, i)>>]
      BY <1>1, <1>4 DEF NestedReading
    <2>3. Resume(x) = x
      BY DEF Resume
    <2>4. PlaceOf(o, s, i) \in Place
      BY <2>1, PlaceOfIs
    <2>5. list[<<x, PlaceOf(o, s, i)>>] = ReadOn(list, d, S, eoi, x, PlaceOf(o, s, i))
      BY <2>4, ReadingGoesOn
    <2>6. ReadOn(list, d, S, eoi, x, PlaceOf(o, s, i)) = x
      BY DEF ReadOn
    <2> QED BY <2>1, <2>2, <2>3, <2>5, <2>6
  <1> HIDE DEF T, n
  <1>5. 0..n \subseteq T
    BY <1>2, <1>3, <1>4, DownwardInduction
  <1>6. 0 \in T
    BY <1>2, <1>5
  <1> QED BY <1>1, <1>6 DEF T, Said

\* Nothing is left of the input.
LEMMA ReachesOut ==
  ASSUME NEW d \in DOMAIN Documents, NEW S, NEW eoi \in Nat, NEW o, NEW s, Stacks(o, s),
         NEW r \in Progress(eoi), r.stop = "go", r.pos = eoi, Reaches(d, S, eoi, o, s, r),
         o # << >> => s[Len(o)].end = UnknownSize \/ r.pos < s[Len(o)].end
  PROVE  Reaches(d, S, eoi, o, s, OutOfInput(r))
  <1> DEFINE m == PlaceOf(o, s, Len(o))
             list == Children(d, S, eoi)
             x == OutOfInput(r)
  <1>0. Len(o) \in 0..Len(o) /\ (Len(o) = 0 <=> o = << >>)
    BY EmptySeq DEF Stacks
  <1>1. /\ m \in Place /\ m.level = Len(o)
        /\ (Len(o) # 0 => m.end = s[Len(o)].end /\ s[Len(o)].end \in Extent)
    BY <1>0, PlaceOfIs DEF Frame
  <1>2. x \in Progress(eoi) /\ x.stop = "out"
    BY OutOfInputOnward DEF Onward
  <1>3. r.pos \in Nat
    BY DEF Progress
  <1> HIDE DEF m, x, list
  <1>4. /\ list[<<r, m>>] = ReadOn(list, d, S, eoi, r, m)
        /\ list[<<x, m>>] = ReadOn(list, d, S, eoi, x, m)
    BY <1>1, <1>2, ReadingGoesOn DEF list
  <1>5. ReadOn(list, d, S, eoi, x, m) = LeftOpen(x, m)
    BY <1>2 DEF ReadOn
  <1>6. ~(m.level # 0 /\ m.end # UnknownSize /\ r.pos >= m.end)
    BY <1>0, <1>1, <1>3 DEF Extent
  <1>7. ReadOn(list, d, S, eoi, r, m) = LeftOpen(x, m)
    BY <1>6 DEF ReadOn, x
  <1>8. list[<<r, m>>] = list[<<x, m>>]
    BY <1>4, <1>5, <1>7
  <1> QED BY <1>8, ReachesSame DEF list, m, x

\* Out of input the masters end from the innermost outwards.
LEMMA ReachesClosing ==
  ASSUME NEW d \in DOMAIN Documents, NEW S, NEW eoi \in Nat, NEW o, NEW s, Stacks(o, s), o # << >>,
         NEW x \in Progress(eoi), x.stop = "out", Reaches(d, S, eoi, o, s, x)
  PROVE  Reaches(d, S, eoi, Pop(o), Pop(s), LeftOpen(x, PlaceOf(o, s, Len(o))))
  <1> DEFINE m == PlaceOf(o, s, Len(o))
             list == Children(d, S, eoi)
  <1>0. Len(o) \in 0..Len(o)
    BY DEF Stacks
  <1>1. m \in Place
    BY <1>0, PlaceOfIs
  <1>2. list[<<x, m>>] = LeftOpen(x, m)
    <2> HIDE DEF m, list
    <2>1. list[<<x, m>>] = ReadOn(list, d, S, eoi, x, m)
      BY <1>1, ReadingGoesOn DEF list
    <2> QED BY <2>1 DEF ReadOn
  <1>3. LeftOpen(x, m).stop = "out"
    BY DEF LeftOpen, Standing
  <1>4. Resume(LeftOpen(x, m)) = LeftOpen(x, m)
    BY <1>3 DEF Resume
  <1>5. Reaches(d, S, eoi, Pop(o), Pop(s), Resume(list[<<x, m>>]))
    BY ReachesPop
  <1> QED BY <1>2, <1>4, <1>5

\* With no master left the end of the input is clean.
LEMMA ReachesEOF ==
  ASSUME NEW d \in DOMAIN Documents, NEW S, NEW eoi \in Nat, NEW o, NEW s, Stacks(o, s), o = << >>,
         NEW x \in Progress(eoi), x.stop = "out", x.short = FALSE, Reaches(d, S, eoi, o, s, x)
  PROVE  WholeInput(d, S, eoi) = Append(x.closed, Outcome("eof", "none"))
  <1> DEFINE list == Children(d, S, eoi)
  <1>1. PICK lev : NestedReading(list, lev, o, s, x) /\ WholeInput(d, S, eoi) = Said(lev[0])
    BY DEF Reaches
  <1>2. Len(o) = 0
    OBVIOUS
  <1>3. lev[0] = list[<<x, NoPlace>>]
    BY <1>1, <1>2 DEF NestedReading, PlaceOf
  <1>4. NoPlace \in Place
    BY DEF NoPlace, Place, Extent
  <1>5. list[<<x, NoPlace>>] = ReadOn(list, d, S, eoi, x, NoPlace)
    BY <1>4, ReadingGoesOn
  <1>6. ReadOn(list, d, S, eoi, x, NoPlace) = x
    BY DEF ReadOn, LeftOpen, NoPlace
  <1> QED BY <1>1, <1>3, <1>5, <1>6 DEF Said

\* A master that was cut short makes the end of the input a failure.
LEMMA ReachesUnfinished ==
  ASSUME NEW d \in DOMAIN Documents, NEW S, NEW eoi \in Nat, NEW o, NEW s, Stacks(o, s),
         NEW x \in Progress(eoi), x.stop = "out", Reaches(d, S, eoi, o, s, x),
         NEW j \in 1..Len(o), s[j].end # UnknownSize, x.pos < s[j].end
  PROVE  WholeInput(d, S, eoi) = Append(x.evs, Outcome("fail", "UnfinishedMaster"))
  <1> DEFINE n == Len(o)
             list == Children(d, S, eoi)
  <1>1. PICK lev : NestedReading(list, lev, o, s, x) /\ WholeInput(d, S, eoi) = Said(lev[0])
    BY DEF Reaches
  <1> DEFINE Good(i) == /\ lev[i] \in Progress(eoi) /\ lev[i].stop = "out"
                        /\ lev[i].evs = x.evs /\ lev[i].pos = x.pos
                        /\ i <= j => lev[i].short
             T == {i \in 0..n : Good(i)}
  <1>2. n \in Nat /\ j \in Nat
    BY DEF Stacks
  <1>3. ASSUME NEW i \in 0..n, NEW y \in Progress(eoi), y.stop = "out", y.evs = x.evs, y.pos = x.pos,
               i + 1 <= j => y.short, lev[i] = list[<<y, PlaceOf(o, s, i)>>]
        PROVE  Good(i)
    <2> DEFINE m == PlaceOf(o, s, i)
    <2>1. /\ m \in Place /\ m.level = i /\ (i # 0 => m.end = s[i].end)
      BY PlaceOfIs
    <2>2. lev[i] = ReadOn(list, d, S, eoi, y, m)
      BY <1>3, <2>1, ReadingGoesOn
    <2> HIDE DEF m, list
    <2>3. lev[i] = LeftOpen(y, m)
      BY <1>3, <2>2 DEF ReadOn
    <2>4. Onward(eoi, y, LeftOpen(y, m))
      BY <1>3, <2>1, LeftOpenOnward
    <2>5. LeftOpen(y, m).stop = "out" /\ LeftOpen(y, m).evs = x.evs /\ LeftOpen(y, m).pos = x.pos
      BY <1>3 DEF LeftOpen, Standing
    <2>6. ASSUME i <= j PROVE LeftOpen(y, m).short
      <3>1. CASE i = 0
        <4>1. y.short
          BY <1>2, <1>3, <3>1
        <4> QED BY <2>1, <3>1, <4>1 DEF LeftOpen
      <3>2. CASE i # 0 /\ i = j
        <4>1. m.end # UnknownSize /\ y.pos < m.end
          BY <1>3, <2>1, <3>2
        <4> QED BY <2>1, <3>2, <4>1 DEF LeftOpen, Standing
      <3>3. CASE i # 0 /\ i # j
        <4>1. y.short
          BY <1>2, <1>3, <2>6, <3>3
        <4> QED BY <2>1, <3>3, <4>1 DEF LeftOpen, Standing
      <3> QED BY <3>1, <3>2, <3>3
    <2> QED BY <2>3, <2>4, <2>5, <2>6 DEF Onward
  <1>4. n \in T
    <2>1. lev[n] = list[<<x, PlaceOf(o, s, n)>>]
      BY <1>1 DEF NestedReading
    <2>2. n \in 0..n /\ ~(n + 1 <= j)
      BY <1>2
    <2> HIDE DEF Good, list
    <2> QED BY <1>3, <2>1, <2>2
  <1>5. ASSUME NEW i \in 0..(n - 1), i + 1 \in T PROVE i \in T
    <2> DEFINE y == lev[i + 1]
    <2>1. lev[i] = list[<<Resume(y), PlaceOf(o, s, i)>>]
      BY <1>1 DEF NestedReading
    <2>2. i \in 0..n
      BY <1>2
    <2>3. /\ y \in Progress(eoi) /\ y.stop = "out" /\ y.evs = x.evs /\ y.pos = x.pos
          /\ (i + 1 <= j => y.short)
      BY <1>5
    <2> HIDE DEF y
    <2>4. Resume(y) = y
      BY <2>3 DEF Resume
    <2> HIDE DEF Good, list
    <2> QED BY <1>3, <2>1, <2>2, <2>3, <2>4
  <1> HIDE DEF T
  <1>6. 0..n \subseteq T
    BY <1>2, <1>4, <1>5, DownwardInduction
  <1>7. 0 \in T /\ 0 <= j
    BY <1>2, <1>6
  <1> QED BY <1>1, <1>7 DEF T, Said

-----------------------------------------------------------------------------
(* The parser and the recursive descent look at an element alike.          *)

\* However many more bytes the input has, a header that is there is what it is.
LEMMA LongerVINT ==
  ASSUME NEW h, NEW a \in Nat, NEW b \in Nat, a <= b, VINTResult(h, a) # "NeedMoreData",
         h.idLen \in Nat, HeaderLen(h) \in Nat
  PROVE  VINTResult(h, b) = VINTResult(h, a)
  BY DEF VINTResult

\* The VINTs of a header have lengths, whatever the bytes are.
LEMMA HeaderLengths ==
  ASSUME NEW d \in DOMAIN Documents, NEW o
  PROVE  HeaderAt(d, o).idLen \in Nat /\ HeaderLen(HeaderAt(d, o)) \in Nat
  <1>1. CASE o \in DOMAIN Documents[d].at
    <2>1. HeaderAt(d, o) \in Header
      BY <1>1, Assumption DEF DocumentsAssumption, HeaderAt
    <2> QED BY <2>1 DEF Header, HeaderLen
  <1>2. CASE o \notin DOMAIN Documents[d].at
    BY <1>2 DEF HeaderAt, HeaderLen
  <1> QED BY <1>1, <1>2

\* The defect of an element, as Peek finds it.
LEMMA PeekFindsDefect ==
  ASSUME NEW d \in DOMAIN Documents, NEW q, Quiet(q), NEW eoi \in Nat, q.fed <= eoi,
         NEW o, Stacks(o, q.stack), ~AtMasterEnd(q)
  PROVE  LET h   == HeaderAt(d, q.pos)
             why == Defect(h, q.pos, PlaceOf(o, q.stack, Len(o)).end, eoi)
         IN /\ PeekResult(d, q) \in Malformed => why = PeekResult(d, q) /\ q.pos # eoi
            /\ PeekResult(d, q) = "ok" =>
                 /\ q.pos # eoi
                 /\ why = IF KindOf[h.id] = "endmaster" THEN "Classifier" ELSE "none"
            /\ PeekResult(d, q) = "NeedMoreData" /\ q.fed = eoi => why = "TruncatedHeader"
  <1> DEFINE h == HeaderAt(d, q.pos)
             end == PlaceOf(o, q.stack, Len(o)).end
             why == Defect(h, q.pos, end, eoi)
             v == VINTResult(h, Available(q))
             w == VINTResult(h, eoi - q.pos)
  <1>1. q.pos \in Nat /\ q.fed \in Nat /\ q.pos <= q.fed /\ q.stack \in Seq(Frame)
        /\ Available(q) = q.fed - q.pos
    BY DEF Quiet, ParserState, Available
  <1>2. Available(q) \in Nat /\ eoi - q.pos \in Nat /\ Available(q) <= eoi - q.pos
    BY <1>1
  <1>3. v # "NeedMoreData" => w = v
    BY <1>2, HeaderLengths, LongerVINT
  <1>4. v \in {"ok", "NeedMoreData", "VINTLength"}
    BY DEF VINTResult
  <1>5. PeekResult(d, q) = HeaderOutcome(h, q)
    BY DEF PeekResult, HeaderResult, Quiet
  <1>6. Len(o) \in 0..Len(o) /\ (Len(o) = 0 <=> q.stack = << >>) /\ Len(o) = Len(q.stack)
    BY EmptySeq DEF Stacks
  <1>7. end = IF q.stack = << >> THEN UnknownSize ELSE Top(q.stack).end
    BY <1>6 DEF PlaceOf, NoPlace, Top
  <1>8. v = "ok" /\ h.size # UnknownSize => EndOf(h, q.pos) = q.pos + HeaderLen(h) + h.size
    BY DEF EndOf
  <1>9. v = "ok" => (ChildOverflows(q, h) <=> /\ h.size # UnknownSize /\ end # UnknownSize
                                             /\ EndOf(h, q.pos) > end)
    BY <1>7, <1>8 DEF ChildOverflows
  <1>10. v # "NeedMoreData" => q.pos # eoi
    BY <1>1, <1>2 DEF VINTResult
  <1>11. /\ HeaderOutcome(h, q) = IF v # "ok" THEN v
                                  ELSE IF h.size = UnknownSize /\ KindOf[h.id] # "master"
                                  THEN "UnknownSizeLeaf"
                                  ELSE IF ChildOverflows(q, h) THEN "ElementOverflow" ELSE "ok"
    BY DEF HeaderOutcome
  <1>12. /\ why = IF w = "NeedMoreData" THEN "TruncatedHeader"
                  ELSE IF w # "ok" THEN w
                  ELSE IF h.size = UnknownSize
                  THEN IF KindOf[h.id] = "master" THEN "none" ELSE "UnknownSizeLeaf"
                  ELSE IF end # UnknownSize /\ EndOf(h, q.pos) > end THEN "ElementOverflow"
                  ELSE IF KindOf[h.id] = "endmaster" THEN "Classifier"
                  ELSE "none"
    BY DEF Defect
  <1>13. q.fed = eoi => w = v
    BY <1>1
  <1> HIDE DEF v, w, why, end, h
  <1>14. CASE v = "NeedMoreData"
    BY <1>5, <1>11, <1>12, <1>13, <1>14 DEF Malformed, h, end, why
  <1>15. CASE v = "VINTLength"
    BY <1>3, <1>5, <1>10, <1>11, <1>12, <1>15 DEF Malformed, h, end, why
  <1>16. CASE v = "ok"
    <2>1. w = "ok" /\ q.pos # eoi
      BY <1>3, <1>10, <1>16
    <2> QED BY <1>5, <1>9, <1>11, <1>12, <1>16, <2>1 DEF Malformed, h, end, why
  <1> QED BY <1>4, <1>14, <1>15, <1>16

\* What the list of the innermost master makes of each answer of Peek.
PeekMeans(d, S, eoi, q, o, evs) ==
  LET h    == HeaderAt(d, q.pos)
      m    == PlaceOf(o, q.stack, Len(o))
      r    == Going(evs, q.pos)
      list == Children(d, S, eoi)
      peek == PeekResult(d, q)
  IN /\ r \in Progress(eoi) /\ m \in Place
     /\ peek = "EndMaster" => o # << >> /\ list[<<r, m>>] = Close(r, m, "DeclaredEnd")
     /\ peek \in Malformed => list[<<r, m>>] = Stop(r, peek)
     /\ peek = "ok" =>
          IF KindOf[h.id] = "endmaster" THEN list[<<r, m>>] = Stop(r, "Classifier")
          ELSE IF CrossesBoundary(q, o, h) THEN list[<<r, m>>] = Close(r, m, "Boundary")
          ELSE /\ list[<<r, m>>] = list[<<Past(list, d, S, eoi, r, m), m>>]
               /\ Defect(h, r.pos, m.end, eoi) = "none"
     /\ peek = "NeedMoreData" /\ q.fed = eoi =>
          IF q.pos < eoi THEN list[<<r, m>>] = Stop(r, "TruncatedHeader")
          ELSE q.pos = eoi
     /\ peek = "NeedMoreData" =>
          (o # << >> => q.stack[Len(o)].end = UnknownSize \/ q.pos < q.stack[Len(o)].end)

\* Peek finds what the recursive descent does.
LEMMA PeekReads ==
  ASSUME NEW d \in DOMAIN Documents, NEW S, NEW q, Quiet(q), NEW eoi \in Nat, q.fed <= eoi,
         NEW o, Stacks(o, q.stack), NEW evs \in Seq(Event)
  PROVE  PeekMeans(d, S, eoi, q, o, evs)
  <1> DEFINE h == HeaderAt(d, q.pos)
             m == PlaceOf(o, q.stack, Len(o))
             r == Going(evs, q.pos)
             list == Children(d, S, eoi)
             peek == PeekResult(d, q)
             why == Defect(h, q.pos, m.end, eoi)
  <1>1. q.pos \in Nat /\ q.fed \in Nat /\ q.pos <= q.fed /\ q.stack \in Seq(Frame)
    BY DEF Quiet, ParserState
  <1>2. Len(o) \in 0..Len(o) /\ Len(o) = Len(q.stack) /\ (Len(o) = 0 <=> q.stack = << >>)
        /\ (Len(o) = 0 <=> o = << >>)
    BY EmptySeq DEF Stacks
  <1>3. q.pos \in 0..eoi
    BY <1>1
  <1>4. r \in Progress(eoi) /\ r.pos = q.pos /\ r.stop = "go" /\ r.evs = evs
    BY <1>3, GoingIs
  <1>5. /\ m \in Place /\ m.level = Len(o)
        /\ (Len(o) # 0 => /\ m.end = q.stack[Len(o)].end /\ m.end \in Extent /\ m.om = o[Len(o)])
    BY <1>2, PlaceOfIs DEF Frame
  <1>6. AtMasterEnd(q) <=> m.level # 0 /\ m.end # UnknownSize /\ r.pos >= m.end
    BY <1>2, <1>4, <1>5 DEF AtMasterEnd, Top
  <1>7. list[<<r, m>>] = ReadOn(list, d, S, eoi, r, m)
    BY <1>4, <1>5, ReadingGoesOn
  <1>8. CrossesBoundary(q, o, h) <=>
          m.level # 0 /\ m.om.size = UnknownSize /\ <<m.om.id, h.id>> \in Boundary
    BY <1>2, <1>5 DEF CrossesBoundary, Top
  <1>9. ReadOn(list, d, S, eoi, r, m) =
          IF AtMasterEnd(q) THEN Close(r, m, "DeclaredEnd")
          ELSE IF q.pos = eoi THEN LeftOpen(OutOfInput(r), m)
          ELSE IF why # "none" THEN Stop(r, why)
          ELSE IF CrossesBoundary(q, o, h) THEN Close(r, m, "Boundary")
          ELSE list[<<Past(list, d, S, eoi, r, m), m>>]
    BY <1>4, <1>6, <1>8 DEF ReadOn
  <1>10. ~AtMasterEnd(q) =>
           /\ peek \in Malformed => why = peek /\ q.pos # eoi
           /\ peek = "ok" => /\ q.pos # eoi
                             /\ why = IF KindOf[h.id] = "endmaster" THEN "Classifier" ELSE "none"
           /\ peek = "NeedMoreData" /\ q.fed = eoi => why = "TruncatedHeader"
    BY PeekFindsDefect
  <1>11. peek = "EndMaster" <=> AtMasterEnd(q)
    BY PeekAnswers
  <1>12. "EndMaster" \notin Malformed /\ "none" \notin Malformed
    BY DEF Malformed
  <1> HIDE DEF h, m, r, list, peek, why
  <1>13. peek = "EndMaster" => o # << >> /\ list[<<r, m>>] = Close(r, m, "DeclaredEnd")
    BY <1>2, <1>5, <1>6, <1>7, <1>9, <1>11
  <1>14. peek \in Malformed => list[<<r, m>>] = Stop(r, peek)
    BY <1>7, <1>9, <1>10, <1>11, <1>12
  <1>15. peek = "ok" =>
           IF KindOf[h.id] = "endmaster" THEN list[<<r, m>>] = Stop(r, "Classifier")
           ELSE IF CrossesBoundary(q, o, h) THEN list[<<r, m>>] = Close(r, m, "Boundary")
           ELSE /\ list[<<r, m>>] = list[<<Past(list, d, S, eoi, r, m), m>>]
                /\ Defect(h, r.pos, m.end, eoi) = "none"
    BY <1>4, <1>7, <1>9, <1>10, <1>11 DEF why
  <1>16. peek = "NeedMoreData" /\ q.fed = eoi =>
           IF q.pos < eoi THEN list[<<r, m>>] = Stop(r, "TruncatedHeader") ELSE q.pos = eoi
    BY <1>1, <1>7, <1>9, <1>10, <1>11
  <1>17. peek = "NeedMoreData" =>
           (o # << >> => q.stack[Len(o)].end = UnknownSize \/ q.pos < q.stack[Len(o)].end)
    BY <1>1, <1>2, <1>4, <1>5, <1>6, <1>11 DEF Extent
  <1> QED BY <1>4, <1>5, <1>13, <1>14, <1>15, <1>16, <1>17 DEF PeekMeans, h, m, r, list, peek, why

-----------------------------------------------------------------------------
(* What the cursor has read and what is to come.                           *)

\* The masters before Bound are skipped or not for good.
Bound == IF pending = "master" /\ decision = "none" THEN pendOpen.offset ELSE p.pos

\* Decisions and an end of the input that may still come about.
Possible(S, eoi) ==
  /\ \A x \in 0..(Bound - 1) : x \in S <=> x \in skipped
  /\ eoi \in Nat /\ p.fed <= eoi /\ (finalized => eoi = p.fed)

\* Where the recursive descent stands when the cursor stands at a pending node.
Now(S, eoi) ==
  LET r == Going(events, p.pos)
  IN IF pending = "none" \/ decision = "payloadDone" THEN r
     ELSE IF pending = "leaf" \/ (pendOpen.offset \in S /\ p.current.size # UnknownSize)
     THEN PastPayload(r, p.current.size, eoi)
     ELSE IF pendOpen.offset \in S THEN Stop(r, "SkipUnknownSize")
     ELSE Resume(Children(doc, S, eoi)[
                   <<r, [om |-> pendOpen, level |-> Len(open) + 1,
                         end |-> IF p.current.size = UnknownSize THEN UnknownSize
                                 ELSE p.pos + p.current.size]>>])

\* Out of input at pos with every open master at its end: evs was said, and the
\* ends of the masters o are still to be.
Drains(d, S, eoi, o, pos, evs) ==
  \E s, x : /\ Stacks(o, s) /\ x \in Progress(eoi)
            /\ \A i \in 1..Len(o) : s[i].end = UnknownSize \/ pos >= s[i].end
            /\ x.stop = "out" /\ x.pos = pos /\ x.closed = evs /\ x.short = FALSE
            /\ Reaches(d, S, eoi, o, s, x)

Pursues(S, eoi) ==
  IF eofRun THEN Drains(doc, S, eoi, open, p.pos, events)
  ELSE Reaches(doc, S, eoi, open, p.stack, Now(S, eoi))

SkipsInv ==
  /\ p.pos \in Nat
  /\ \A x \in skipped : x \in Nat /\ x < Bound
  /\ pending = "master" =>
       /\ pendOpen.offset \in Nat /\ pendOpen.offset < p.pos
       /\ decision = "skipSubtree" <=> pendOpen.offset \in skipped

EndsInv ==
  /\ p.fed <= InputEnd
  /\ eofRun /\ err = "none" => \A i \in 1..Len(closes) : closes[i].end = p.pos
  /\ EOFReported => Ended

\* The events are the beginning of what the input says, and all of it unless a chunk
\* fed after Finalize broke the reading off.
HasTold(S, eoi) ==
  /\ IsPrefix(events, WholeInput(doc, S, eoi))
  /\ EOFReported \/ err # "FedAfterFinalize" => events = WholeInput(doc, S, eoi)

\* As long as nothing is final the events lead to all the input says, and then they
\* have told it.
ReadsInv ==
  \A S, eoi : Possible(S, eoi) =>
    IF err = "none" /\ ~EOFReported THEN Pursues(S, eoi) ELSE HasTold(S, eoi)

ReadStrong == CursorInv /\ SkipsInv /\ EndsInv /\ ReadsInv

\* A cursor that can go on.
Healthy == ReadStrong /\ err = "none" /\ ~EOFReported

\* What a cursor that can go on has, part by part.
LEMMA HealthyIs ==
  ASSUME Healthy
  PROVE  /\ CursorInv /\ SkipsInv /\ EndsInv /\ err = "none" /\ ~EOFReported
         /\ doc \in DOMAIN Documents /\ events \in Seq(Event) /\ open \in Seq(OpenMaster)
         /\ p \in ParserState /\ p.pos \in Nat /\ p.fed \in Nat /\ p.pos <= p.fed
         /\ p.stack \in Seq(Frame)
         /\ pending \in {"none", "master", "leaf"}
         /\ \A S, eoi : Possible(S, eoi) => Pursues(S, eoi)
  BY DEF Healthy, ReadStrong, ReadsInv, CursorInv, TypeOK, WithinInput, ParserState

\* What the decisions and the input may be once the pending decision is carried out.
Settles(S, eoi) ==
  /\ \A x \in 0..(p.pos - 1) : x \in S <=> x \in skipped
  /\ eoi \in Nat /\ p.fed <= eoi /\ (finalized => eoi = p.fed)

\* Those are among the ones possible, and have the pending decision right.
LEMMA SettlesIsPossible ==
  ASSUME SkipsInv, NEW S, NEW eoi, Settles(S, eoi)
  PROVE  Possible(S, eoi) /\ (pending = "master" => (pendOpen.offset \in S <=> decision = "skipSubtree"))
  <1>1. \A x \in 0..(Bound - 1) : x \in 0..(p.pos - 1)
    BY DEF Bound, SkipsInv
  <1>2. pending = "master" => pendOpen.offset \in 0..(p.pos - 1)
    BY DEF SkipsInv
  <1>3. pending = "master" => (pendOpen.offset \in S <=> decision = "skipSubtree")
    BY <1>2 DEF SkipsInv, Settles
  <1>4. Possible(S, eoi)
    BY <1>1 DEF Possible, Settles
  <1> QED BY <1>3, <1>4

\* Carrying out a decision does what the recursive descent does.
LEMMA ResolvedReads ==
  ASSUME Healthy, ~eofRun, ResolveResult = "ok", NEW S, NEW eoi, Settles(S, eoi)
  PROVE  /\ Quiet(ResolvedParser) /\ ResolvedParser.fed = p.fed /\ p.pos <= ResolvedParser.pos
         /\ Stacks(ResolvedOpen, ResolvedParser.stack)
         /\ Reaches(doc, S, eoi, ResolvedOpen, ResolvedParser.stack,
                    Going(events, ResolvedParser.pos))
  <1> USE HealthyIs
  <1>0. eoi \in Nat /\ p.fed <= eoi /\ ~EOFReported /\ CursorInv /\ SkipsInv
        /\ p \in ParserState /\ p.pos \in Nat /\ p.fed \in Nat /\ p.pos <= p.fed
        /\ events \in Seq(Event) /\ pending \in {"none", "master", "leaf"}
    BY DEF Settles
  <1>1. Reaches(doc, S, eoi, open, p.stack, Now(S, eoi))
    BY SettlesIsPossible DEF Pursues
  <1>2. Stacks(open, p.stack) /\ SameMasters(open, p.stack)
    BY DEF CursorInv, StackMirror, SameMasters, Stacks
  <1>3. /\ Quiet(ResolvedParser) /\ ResolvedParser.fed = p.fed
        /\ ResolvedOpen \in Seq(OpenMaster) /\ SameMasters(ResolvedOpen, ResolvedParser.stack)
    BY Resolving
  <1>4. Stacks(ResolvedOpen, ResolvedParser.stack)
    BY <1>3 DEF Stacks, SameMasters, Quiet, ParserState
  <1>5. pending = "master" => (pendOpen.offset \in S <=> decision = "skipSubtree")
    BY <1>0, SettlesIsPossible
  <1>6. PendingMatches /\ TypeOK
    BY DEF CursorInv
  <1> DEFINE r == Going(events, p.pos)
  <1>7. r.pos = p.pos /\ r.evs = events
    BY DEF Going, Standing
  <1>8. p.current.size \in Extent
    BY <1>0 DEF ParserState, ElementCtx
  <1>9. CASE pending = "none" \/ decision = "payloadDone"
    <2>1. ResolvedParser = p /\ ResolvedOpen = open
      <3>1. decision = "payloadDone" /\ pending # "none" => pending = "leaf"
        BY <1>0, <1>6 DEF PendingMatches
      <3> QED BY <1>9, <3>1 DEF ResolvedParser, ResolvedOpen
    <2>2. Now(S, eoi) = Going(events, p.pos)
      BY <1>9 DEF Now
    <2> QED BY <1>0, <1>1, <1>3, <1>4, <2>1, <2>2
  <1>10. CASE pending # "none" /\ decision # "payloadDone"
              /\ (pending = "leaf" \/ decision = "skipSubtree")
    <2>1. ResolvedParser = StepOver(p) /\ ResolvedOpen = open
      BY <1>0, <1>10 DEF ResolvedParser, ResolvedOpen
    <2>2. /\ p.current.size # UnknownSize /\ p.current.size <= p.fed - p.pos
      <3>1. CASE pending = "leaf"
        <4>1. PayloadResult(p) = "ok"
          BY <1>10, <3>1 DEF ResolveResult, SkipPayloadResult
        <4> QED BY <1>0, <1>8, <4>1 DEF PayloadResult, Available, Extent, UnknownSize
      <3>2. CASE pending = "master"
        <4>1. decision = "skipSubtree" /\ p.current.size = pendOpen.size
          BY <1>6, <1>10, <3>2 DEF PendingMatches
        <4>2. PayloadResult(p) = "ok"
          BY <3>2, <4>1 DEF ResolveResult
        <4> QED BY <1>0, <1>8, <4>2 DEF PayloadResult, Available, Extent, UnknownSize
      <3> QED BY <1>0, <1>10, <3>1, <3>2
    <2> DEFINE size == p.current.size
               at == p.pos + size
    <2>3. size \in Nat /\ at \in Nat /\ ~(at > eoi) /\ p.pos <= at
      BY <1>0, <1>8, <2>2 DEF Extent
    <2>4. Now(S, eoi) = PastPayload(r, size, eoi)
      BY <1>0, <1>5, <1>10, <2>2 DEF Now
    <2>5. PastPayload(r, size, eoi) = Going(events, at)
      BY <1>7, <2>3 DEF PastPayload
    <2>6. ResolvedParser.pos = at /\ ResolvedParser.stack = p.stack
      BY <2>1 DEF StepOver, At
    <2> QED BY <1>1, <1>3, <1>4, <2>1, <2>3, <2>4, <2>5, <2>6
  <1>11. CASE pending = "master" /\ decision # "payloadDone" /\ decision # "skipSubtree"
    <2> DEFINE c == p.current
               end == IF c.size = UnknownSize THEN UnknownSize ELSE p.pos + c.size
               f == [id |-> c.id, start |-> c.offset, end |-> end]
    <2>1. ResolvedParser = EnterMaster(p) /\ ResolvedOpen = Append(open, pendOpen)
      BY <1>11 DEF ResolvedParser, ResolvedOpen
    <2>2. EnterMaster(p) = At(p, p.pos, Append(p.stack, f), NoElement)
      BY DEF EnterMaster
    <2>3. pendOpen \in OpenMaster /\ c.id = pendOpen.id /\ c \in ElementCtx
      BY <1>0, <1>6, <1>11 DEF TypeOK, PendingMatches, ParserState
    <2>4. f \in Frame
      BY <1>0, <1>8, <2>3 DEF Frame, Extent, OpenMaster, ElementCtx
    <2>5. Now(S, eoi) = Resume(Children(doc, S, eoi)[
                                 <<r, [om |-> pendOpen, level |-> Len(open) + 1, end |-> f.end]>>])
      BY <1>5, <1>11 DEF Now
    <2> HIDE DEF f, c, end, r
    <2>6. Reaches(doc, S, eoi, Append(open, pendOpen), Append(p.stack, f), r)
      BY <1>1, <1>2, <2>3, <2>4, <2>5, ReachesPush
    <2>7. ResolvedParser.stack = Append(p.stack, f) /\ ResolvedParser.pos = p.pos
      BY <2>1, <2>2 DEF At
    <2> QED BY <1>0, <1>3, <1>4, <2>1, <2>6, <2>7 DEF r
  <1> QED BY <1>0, <1>9, <1>10, <1>11

-----------------------------------------------------------------------------
(* Every call keeps it.                                                    *)

\* A reading that stopped short stays where it is.
LEMMA StoppedReads ==
  ASSUME NEW d \in DOMAIN Documents, NEW S, NEW eoi \in Nat,
         NEW x \in Progress(eoi), NEW m \in Place, x.stop = "fail"
  PROVE  Children(d, S, eoi)[<<x, m>>] = x
  <1>1. Children(d, S, eoi)[<<x, m>>] = ReadOn(Children(d, S, eoi), d, S, eoi, x, m)
    BY ReadingGoesOn
  <1> QED BY <1>1 DEF ReadOn

\* Out of input with every master at its end, the input says what was said and more.
LEMMA ReachesClosed ==
  ASSUME NEW d \in DOMAIN Documents, NEW S, NEW eoi \in Nat
  PROVE  \A n \in Nat : \A o \in Seq(OpenMaster), s \in Seq(Frame), x \in Progress(eoi) :
           /\ Stacks(o, s) /\ Len(o) = n /\ x.stop = "out" /\ x.short = FALSE
           /\ \A i \in 1..Len(o) : s[i].end = UnknownSize \/ x.pos >= s[i].end
           /\ Reaches(d, S, eoi, o, s, x)
           => Extends(x.closed, WholeInput(d, S, eoi)) /\ WholeInput(d, S, eoi) \in Seq(Event)
  <1> DEFINE Ends(o, s, x) == \A i \in 1..Len(o) : s[i].end = UnknownSize \/ x.pos >= s[i].end
             Reached(o, s, x) == /\ Stacks(o, s) /\ x.stop = "out" /\ x.short = FALSE
                                 /\ Ends(o, s, x) /\ Reaches(d, S, eoi, o, s, x)
             Reported(x) == Extends(x.closed, WholeInput(d, S, eoi)) /\ WholeInput(d, S, eoi) \in Seq(Event)
             Good(n) == \A o \in Seq(OpenMaster), s \in Seq(Frame), x \in Progress(eoi) :
                          Len(o) = n /\ Reached(o, s, x) => Reported(x)
             Goods == {n \in Nat : Good(n)}
  <1>1. Good(0)
    <2> SUFFICES ASSUME NEW o \in Seq(OpenMaster), NEW s \in Seq(Frame), NEW x \in Progress(eoi),
                        Len(o) = 0, Reached(o, s, x)
                 PROVE  Reported(x)
      OBVIOUS
    <2>1. o = << >> /\ x.closed \in Seq(Event)
      BY DEF Progress
    <2>2. WholeInput(d, S, eoi) = Append(x.closed, Outcome("eof", "none"))
      BY <2>1, ReachesEOF
    <2>3. Outcome("eof", "none") \in Event
      BY OutcomeTypes
    <2>4. Append(x.closed, Outcome("eof", "none")) \in Seq(Event)
      BY <2>1, <2>3
    <2> QED BY <2>1, <2>2, <2>4, ExtendsItself
  <1>2. ASSUME NEW n \in Nat, Good(n)
        PROVE  Good(n + 1)
    <2> SUFFICES ASSUME NEW o \in Seq(OpenMaster), NEW s \in Seq(Frame), NEW x \in Progress(eoi),
                        Len(o) = n + 1, Reached(o, s, x)
                 PROVE  Reported(x)
      OBVIOUS
    <2> DEFINE m == PlaceOf(o, s, Len(o))
               y == LeftOpen(x, m)
    <2>1. o # << >> /\ Len(o) \in 0..Len(o) /\ s # << >> /\ Len(s) = Len(o) /\ Len(o) # 0
      BY DEF Stacks
    <2>2. m \in Place /\ m.level = Len(o) /\ m.end = s[Len(o)].end
      BY <2>1, PlaceOfIs
    <2>3. Onward(eoi, x, y)
      BY <2>2, LeftOpenOnward
    <2>4. y.stop = "out" /\ y.pos = x.pos
          /\ y.closed = Append(x.closed, EndNode(m.om, m.level - 1, x.pos, "EndOfInput"))
      BY <2>1, <2>2 DEF LeftOpen, Standing
    <2>5. y.short = FALSE
      <3>1. ~(m.end # UnknownSize /\ x.pos < m.end)
        <4>1. s[Len(o)].end = UnknownSize \/ x.pos >= s[Len(o)].end
          BY <2>1
        <4>2. x.pos \in Nat /\ s[Len(o)] \in Frame
          BY <2>1 DEF Progress
        <4> QED BY <2>2, <4>1, <4>2 DEF Frame, Extent, UnknownSize
      <3> QED BY <2>1, <2>2, <3>1 DEF LeftOpen, Standing
    <2>6. Stacks(Pop(o), Pop(s)) /\ Pop(o) \in Seq(OpenMaster) /\ Pop(s) \in Seq(Frame)
          /\ Len(Pop(o)) = n /\ \A i \in 1..n : Pop(s)[i] = s[i]
      <3>1. Pop(o) \in Seq(OpenMaster) /\ Len(Pop(o)) = Len(o) - 1
        BY <2>1, PopFacts
      <3>2. Pop(s) \in Seq(Frame) /\ Len(Pop(s)) = Len(s) - 1
            /\ \A i \in 1..(Len(s) - 1) : Pop(s)[i] = s[i]
        BY <2>1, PopFacts
      <3> QED BY <2>1, <3>1, <3>2 DEF Stacks
    <2>7. Reaches(d, S, eoi, Pop(o), Pop(s), y)
      BY <2>1, ReachesClosing
    <2>8. Ends(Pop(o), Pop(s), y)
      BY <2>4, <2>6
    <2>9. Reported(y)
      <3> HIDE DEF y, m, Ends, Reported
      <3>1. y \in Progress(eoi)
        BY <2>3 DEF Onward
      <3>2. Reached(Pop(o), Pop(s), y)
        BY <2>4, <2>5, <2>6, <2>7, <2>8
      <3> QED BY <1>2, <2>6, <3>1, <3>2
    <2>10. Extends(x.closed, y.closed) /\ x.closed \in Seq(Event) /\ y.closed \in Seq(Event)
      <3>1. x.closed \in Seq(Event) /\ y.closed \in Seq(Event)
        BY <2>3 DEF Progress, Onward
      <3> QED BY <2>4, <3>1, ExtendsItself
    <2> QED BY <2>9, <2>10, ExtendsOn
  <1> HIDE DEF Good
  <1>3. Goods = Nat
    <2>1. Goods \in SUBSET Nat /\ 0 \in Goods /\ \A n \in Goods : n + 1 \in Goods
      BY <1>1, <1>2
    <2> QED BY <2>1, Induction
  <1>4. \A n \in Nat : Good(n)
    BY <1>3
  <1> QED BY <1>4 DEF Good

\* Where the recursive descent stands is a place it can stand at, and it has said
\* what the cursor reported.
LEMMA NowIs ==
  ASSUME Healthy, ~eofRun, NEW S, NEW eoi, Possible(S, eoi)
  PROVE  /\ Now(S, eoi) \in Progress(eoi) /\ Now(S, eoi).stop # "end" /\ Sound(Now(S, eoi))
         /\ Extends(events, Now(S, eoi).evs)
  <1> USE HealthyIs
  <1>0. eoi \in Nat /\ p.fed <= eoi /\ CursorInv /\ SkipsInv /\ doc \in DOMAIN Documents
        /\ p \in ParserState /\ p.pos \in Nat /\ p.fed \in Nat /\ p.pos <= p.fed
        /\ events \in Seq(Event) /\ open \in Seq(OpenMaster) /\ err = "none"
        /\ pending \in {"none", "master", "leaf"}
    BY DEF Possible
  <1> DEFINE r    == Going(events, p.pos)
             size == p.current.size
             into == [om |-> pendOpen, level |-> Len(open) + 1,
                      end |-> IF size = UnknownSize THEN UnknownSize ELSE p.pos + size]
             list == Children(doc, S, eoi)
  <1>1. r \in Progress(eoi) /\ r.evs = events /\ Sound(r) /\ r.stop = "go" /\ Extends(events, events)
    <2>1. p.pos \in 0..eoi
      BY <1>0
    <2>2. Extends(events, events)
      BY <1>0 DEF Extends
    <2> QED BY <1>0, <2>1, <2>2, GoingIs
  <1>2. PendingMatches /\ TypeOK
    BY <1>0 DEF CursorInv
  <1>3. size \in Extent
    BY <1>0 DEF ParserState, ElementCtx
  <1>4. ASSUME NEW v, Onward(eoi, r, v), v.stop # "end"
        PROVE  v \in Progress(eoi) /\ v.stop # "end" /\ Sound(v) /\ Extends(events, v.evs)
    BY <1>1, <1>4 DEF Onward
  <1>5. CASE pending = "none" \/ decision = "payloadDone"
    <2>1. Now(S, eoi) = r
      BY <1>5 DEF Now
    <2> QED BY <1>1, <2>1
  <1>6. CASE pending # "none" /\ decision # "payloadDone"
             /\ (pending = "leaf" \/ (pendOpen.offset \in S /\ size # UnknownSize))
    <2>1. Now(S, eoi) = PastPayload(r, size, eoi)
      BY <1>6 DEF Now
    <2>2. size \in Nat
      <3>1. pending = "leaf" => size # UnknownSize
        BY <1>0, <1>2, <1>6 DEF PendingMatches
      <3> QED BY <1>3, <1>6, <3>1 DEF Extent
    <2>3. Onward(eoi, r, PastPayload(r, size, eoi))
      BY <1>0, <1>1, <2>2, PayloadOnward
    <2>4. PastPayload(r, size, eoi).stop # "end"
      BY DEF PastPayload, Stop, Going, Standing
    <2> QED BY <1>4, <2>1, <2>3, <2>4
  <1>7. CASE pending = "master" /\ decision # "payloadDone" /\ pendOpen.offset \in S
             /\ ~(pendOpen.offset \in S /\ size # UnknownSize)
    <2>1. Now(S, eoi) = Stop(r, "SkipUnknownSize")
      BY <1>7 DEF Now
    <2>2. Onward(eoi, r, Stop(r, "SkipUnknownSize"))
      BY <1>0, <1>1, StopsOnward DEF StreamErrors
    <2>3. Stop(r, "SkipUnknownSize").stop # "end"
      BY DEF Stop, Standing
    <2> QED BY <1>4, <2>1, <2>2, <2>3
  <1>8. CASE pending = "master" /\ decision # "payloadDone" /\ pendOpen.offset \notin S
    <2>1. Now(S, eoi) = Resume(list[<<r, into>>])
      BY <1>8 DEF Now
    <2>2. into \in Place
      <3>1. pendOpen \in OpenMaster
        BY <1>2, <1>8 DEF TypeOK
      <3>2. into.end \in Extent
        BY <1>0, <1>3 DEF Extent, UnknownSize
      <3>3. Len(open) + 1 \in Nat
        BY <1>0
      <3> QED BY <3>1, <3>2, <3>3 DEF Place
    <2>3. Onward(eoi, r, list[<<r, into>>])
      BY <1>0, <1>1, <2>2, ReadingGoesOn
    <2>4. list[<<r, into>>] \in Progress(eoi)
      BY <2>3 DEF Onward
    <2>5. Onward(eoi, list[<<r, into>>], Resume(list[<<r, into>>]))
      BY <1>0, <2>4, ResumesOnward
    <2>6. Onward(eoi, r, Resume(list[<<r, into>>]))
      BY <1>0, <1>1, <2>3, <2>4, <2>5, OnwardOn
    <2>7. Resume(list[<<r, into>>]).stop # "end"
      BY DEF Resume, Going, Standing
    <2> QED BY <1>4, <2>1, <2>6, <2>7
  <1> QED BY <1>0, <1>5, <1>6, <1>7, <1>8

\* What the cursor reported is the beginning of what the input says.
LEMMA PursuesPrefix ==
  ASSUME Healthy, NEW S, NEW eoi, Possible(S, eoi)
  PROVE  Extends(events, WholeInput(doc, S, eoi)) /\ WholeInput(doc, S, eoi) \in Seq(Event)
  <1>0. eoi \in Nat /\ doc \in DOMAIN Documents /\ events \in Seq(Event) /\ CursorInv
        /\ err = "none" /\ Pursues(S, eoi)
    BY HealthyIs DEF Possible
  <1>1. CASE eofRun
    <2>1. PICK s, x : /\ Stacks(open, s) /\ x \in Progress(eoi)
                      /\ \A i \in 1..Len(open) : s[i].end = UnknownSize \/ p.pos >= s[i].end
                      /\ x.stop = "out" /\ x.pos = p.pos /\ x.closed = events /\ x.short = FALSE
                      /\ Reaches(doc, S, eoi, open, s, x)
      BY <1>0, <1>1 DEF Pursues, Drains
    <2>2. open \in Seq(OpenMaster) /\ s \in Seq(Frame) /\ Len(open) \in Nat
      BY <2>1 DEF Stacks
    <2>3. \A i \in 1..Len(open) : s[i].end = UnknownSize \/ x.pos >= s[i].end
      BY <2>1
    <2> QED BY <1>0, <2>1, <2>2, <2>3, ReachesClosed
  <1>2. CASE ~eofRun
    <2>1. Reaches(doc, S, eoi, open, p.stack, Now(S, eoi))
      BY <1>0, <1>2 DEF Pursues
    <2>2. /\ Now(S, eoi) \in Progress(eoi) /\ Now(S, eoi).stop # "end" /\ Sound(Now(S, eoi))
          /\ Extends(events, Now(S, eoi).evs)
      BY <1>2, NowIs
    <2>3. Stacks(open, p.stack)
      BY <1>0, <1>2, HealthyIs DEF CursorInv, StackMirror, SameMasters, Stacks
    <2>4. Extends(Now(S, eoi).evs, WholeInput(doc, S, eoi)) /\ WholeInput(doc, S, eoi) \in Seq(Event)
      BY <1>0, <2>1, <2>2, <2>3, ReachesPrefix
    <2>5. Now(S, eoi).evs \in Seq(Event)
      BY <2>2 DEF Progress
    <2> QED BY <1>0, <2>2, <2>4, <2>5, ExtendsOn
  <1> QED BY <1>1, <1>2

\* A call that moves nothing takes nothing back of what is to come.
LEMMA SameReads ==
  ASSUME ReadsInv, UNCHANGED <<doc, open, pending, pendOpen, eofRun, err, events>>,
         p'.pos = p.pos, p'.stack = p.stack, p'.current = p.current,
         decision = "payloadDone" <=> decision' = "payloadDone",
         \A S, eoi : Possible(S, eoi)' => Possible(S, eoi)
  PROVE  ReadsInv'
  <1> SUFFICES ASSUME NEW S, NEW eoi, Possible(S, eoi)'
               PROVE  IF err' = "none" /\ ~EOFReported' THEN Pursues(S, eoi)'
                      ELSE HasTold(S, eoi)'
    BY DEF ReadsInv
  <1>1. EOFReported' = EOFReported
    BY DEF EOFReported
  <1>2. Possible(S, eoi)
    OBVIOUS
  <1>3. IF err = "none" /\ ~EOFReported THEN Pursues(S, eoi) ELSE HasTold(S, eoi)
    BY <1>2 DEF ReadsInv
  <1>4. Now(S, eoi)' = Now(S, eoi)
    BY DEF Now
  <1>6. Pursues(S, eoi)' = Pursues(S, eoi)
    BY <1>4 DEF Pursues
  <1>7. HasTold(S, eoi)' = HasTold(S, eoi)
    BY <1>1 DEF HasTold
  <1> QED BY <1>1, <1>3, <1>6, <1>7

\* Nor does a call that ends a reading: what was reported stays the beginning.
LEMMA EndedReads ==
  ASSUME ReadsInv, err # "none" \/ EOFReported, UNCHANGED <<doc, events, err>>,
         \A S, eoi : Possible(S, eoi)' => Possible(S, eoi)
  PROVE  ReadsInv'
  <1> SUFFICES ASSUME NEW S, NEW eoi, Possible(S, eoi)'
               PROVE  HasTold(S, eoi)' /\ (err' # "none" \/ EOFReported')
    BY DEF ReadsInv
  <1>1. EOFReported' = EOFReported
    BY DEF EOFReported
  <1>2. Possible(S, eoi)
    OBVIOUS
  <1>3. HasTold(S, eoi)
    BY <1>2 DEF ReadsInv
  <1>4. HasTold(S, eoi)' = HasTold(S, eoi)
    BY <1>1 DEF HasTold
  <1> QED BY <1>1, <1>3, <1>4

\* A decision is one of those thought of before.
LEMMA DecideReads ==
  ASSUME ReadStrong, Descend \/ SkipSubtree \/ SkipLeaf
  PROVE  SkipsInv' /\ EndsInv' /\ ReadsInv'
  <1> DEFINE off == pendOpen.offset
  <1>1. /\ UNCHANGED <<doc, p, open, pending, pendOpen, closes, finalized, eofRun, err, events>>
        /\ decision = "none" /\ decision' # "none" /\ decision' # "payloadDone"
        /\ skipped' \in {skipped, skipped \cup {off}}
    BY DEF Descend, SkipSubtree, SkipLeaf
  <1>2. pending = "master" \/ pending = "leaf"
    BY DEF ReadStrong, CursorInv, HeldIsPending, Descend, SkipSubtree, SkipLeaf
  <1>3. SkipsInv /\ EndsInv /\ ReadsInv /\ p.pos \in Nat
    BY DEF ReadStrong, SkipsInv
  <1>4. Bound' = p.pos /\ Bound <= Bound' /\ (pending = "master" => Bound = off /\ off \in Nat /\ off < p.pos)
        /\ (pending = "leaf" => Bound = p.pos)
    BY <1>1, <1>2, <1>3 DEF Bound, SkipsInv
  <1>5. skipped' = skipped \/ (pending = "master" /\ decision' = "skipSubtree")
    BY <1>1 DEF ReadStrong, CursorInv, HeldIsPending, Descend, SkipSubtree, SkipLeaf
  <1>6. pending = "master" =>
          \/ decision' = "descend" /\ skipped' = skipped
          \/ decision' = "skipSubtree" /\ skipped' = skipped \cup {off}
    BY DEF ReadStrong, CursorInv, HeldIsPending, Descend, SkipSubtree, SkipLeaf
  <1>7. SkipsInv'
    <2>1. \A x \in skipped : x \in Nat /\ x < Bound
      BY <1>3 DEF SkipsInv
    <2>2. CASE pending = "master"
      <3>1. off \notin skipped
        BY <1>4, <2>1, <2>2
      <3> QED BY <1>1, <1>3, <1>4, <1>6, <2>1, <2>2, <3>1 DEF SkipsInv
    <2>3. CASE pending = "leaf"
      <3>1. skipped' = skipped
        BY <1>5, <2>3
      <3> QED BY <1>1, <1>3, <1>4, <2>1, <2>3, <3>1 DEF SkipsInv
    <2> QED BY <1>2, <2>2, <2>3
  <1>8. ASSUME NEW S, NEW eoi, Possible(S, eoi)'
        PROVE  Possible(S, eoi)
    <2>1. \A x \in 0..(Bound - 1) : x \in 0..(Bound' - 1) /\ (x \in skipped' <=> x \in skipped)
      <3>1. \A x \in 0..(Bound - 1) : x \in 0..(Bound' - 1)
        BY <1>2, <1>3, <1>4
      <3>2. \A x \in 0..(Bound - 1) : x \in skipped' <=> x \in skipped
        BY <1>1, <1>4, <1>5
      <3> QED BY <3>1, <3>2
    <2> QED BY <1>1, <1>8, <2>1 DEF Possible
  <1>9. ReadsInv'
    BY <1>1, <1>3, <1>8, SameReads
  <1>10. EndsInv'
    BY <1>1, <1>3 DEF EndsInv, EOFReported, Ended, InputEnd
  <1> QED BY <1>7, <1>9, <1>10

\* A leaf's payload is passed by whoever asked for it or did not.
LEMMA PayloadReads ==
  ASSUME ReadStrong, Payload
  PROVE  SkipsInv' /\ EndsInv' /\ ReadsInv'
  <1> DEFINE size == p.current.size
             at   == p.pos + size
  <1>1. /\ UNCHANGED <<doc, open, pending, pendOpen, closes, finalized, eofRun, err, events, skipped>>
        /\ decision = "none" /\ decision' = "payloadDone" /\ pending = "leaf"
        /\ p' = StepOver(p) /\ PayloadResult(p) = "ok"
    BY DEF ReadStrong, CursorInv, HeldIsPending, Payload
  <1>2. SkipsInv /\ EndsInv /\ ReadsInv /\ p.pos \in Nat /\ p \in ParserState /\ p.fed \in Nat
        /\ events \in Seq(Event) /\ CursorInv
    BY DEF ReadStrong, SkipsInv, CursorInv, TypeOK, ParserState
  <1>3. size \in Nat /\ at \in Nat /\ p.pos <= at /\ at <= p.fed
    <2>1. size \in Extent
      BY <1>2 DEF ParserState, ElementCtx
    <2>2. size # UnknownSize /\ size <= p.fed - p.pos
      BY <1>1, <1>2, <2>1 DEF PayloadResult, Available, Extent, UnknownSize
    <2> HIDE DEF size
    <2> QED BY <1>2, <2>1, <2>2 DEF Extent
  <1>4. p'.pos = at /\ p'.fed = p.fed /\ p'.stack = p.stack
    BY <1>1 DEF StepOver, At
  <1>5. Bound' = at /\ Bound = p.pos
    BY <1>1, <1>4 DEF Bound
  <1> HIDE DEF at, size
  <1>6. SkipsInv'
    BY <1>1, <1>2, <1>3, <1>4, <1>5 DEF SkipsInv
  <1>7. ASSUME NEW S, NEW eoi, Possible(S, eoi)'
        PROVE  Possible(S, eoi)
    <2>1. \A x \in 0..(Bound - 1) : x \in 0..(Bound' - 1)
      BY <1>2, <1>3, <1>5
    <2> QED BY <1>1, <1>4, <1>7, <2>1 DEF Possible
  <1>8. EndsInv'
    <2>1. ~(eofRun /\ err = "none")
      BY <1>1, <1>2 DEF CursorInv, PendingMatches
    <2>2. EOFReported' = EOFReported /\ Ended' = Ended /\ InputEnd' = InputEnd
      BY <1>1 DEF EOFReported, Ended, InputEnd
    <2> QED BY <1>1, <1>2, <1>4, <2>1, <2>2 DEF EndsInv
  <1>9. ASSUME err # "none" \/ EOFReported
        PROVE  ReadsInv'
    BY <1>1, <1>2, <1>7, <1>9, EndedReads
  <1>10. ASSUME err = "none", ~EOFReported
         PROVE  ReadsInv'
    <2> SUFFICES ASSUME NEW S, NEW eoi, Possible(S, eoi)'
                 PROVE  Pursues(S, eoi)'
      <3>1. err' = "none"
        BY <1>1, <1>10
      <3>2. ~EOFReported'
        BY <1>1, <1>10 DEF EOFReported
      <3> QED BY <3>1, <3>2 DEF ReadsInv
    <2>1. Pursues(S, eoi) /\ ~eofRun
      BY <1>1, <1>2, <1>7, <1>10 DEF ReadsInv, CursorInv, PendingMatches
    <2>2. p.fed <= eoi /\ eoi \in Nat
      BY <1>4 DEF Possible
    <2>3. Now(S, eoi) = PastPayload(Going(events, p.pos), size, eoi)
      BY <1>1 DEF Now, size
    <2>4. PastPayload(Going(events, p.pos), size, eoi) = Going(events, at)
      BY <1>2, <1>3, <2>2 DEF PastPayload, Going, Standing, at
    <2>5. Now(S, eoi)' = Going(events, at)
      BY <1>1, <1>4 DEF Now
    <2>6. Reaches(doc, S, eoi, open, p.stack, Now(S, eoi))
      BY <2>1 DEF Pursues
    <2> QED BY <1>1, <1>4, <2>1, <2>3, <2>4, <2>5, <2>6 DEF Pursues
  <1> QED BY <1>6, <1>8, <1>9, <1>10

\* A chunk fed leaves fewer ends of the input to come.
LEMMA FeedReads ==
  ASSUME ReadStrong, NEW n \in Nat, FeedChunk(n)
  PROVE  SkipsInv' /\ EndsInv' /\ ReadsInv'
  <1>1. /\ UNCHANGED <<doc, open, pending, decision, pendOpen, closes, finalized, eofRun, err,
                       events, skipped>>
        /\ ~finalized /\ p.fed + n <= InputEnd /\ p' = Feed(p, n)
    BY DEF FeedChunk, InputEnd
  <1>2. SkipsInv /\ EndsInv /\ ReadsInv /\ p.pos \in Nat /\ p.fed \in Nat
    BY DEF ReadStrong, SkipsInv, CursorInv, TypeOK, ParserState
  <1>3. p'.pos = p.pos /\ p'.fed = p.fed + n /\ p'.stack = p.stack /\ p'.current = p.current
    BY <1>1 DEF Feed
  <1>4. Bound' = Bound
    BY <1>1, <1>3 DEF Bound
  <1>5. SkipsInv'
    BY <1>1, <1>2, <1>3, <1>4 DEF SkipsInv
  <1>6. ASSUME NEW S, NEW eoi, Possible(S, eoi)'
        PROVE  Possible(S, eoi)
    <2>1. eoi \in Nat /\ p.fed <= eoi
      BY <1>2, <1>3, <1>6 DEF Possible
    <2> QED BY <1>1, <1>4, <1>6, <2>1 DEF Possible
  <1>7. EndsInv'
    BY <1>1, <1>2, <1>3 DEF EndsInv, EOFReported, Ended, InputEnd
  <1>8. ReadsInv'
    BY <1>1, <1>2, <1>3, <1>6, SameReads
  <1> QED BY <1>5, <1>7, <1>8

\* A refused chunk makes final what was reported.
LEMMA FeedAfterFinalizeReads ==
  ASSUME ReadStrong, FeedAfterFinalize
  PROVE  SkipsInv' /\ EndsInv' /\ ReadsInv'
  <1>1. /\ UNCHANGED <<doc, p, open, pending, decision, pendOpen, closes, finalized, eofRun,
                       events, skipped>>
        /\ err = "none" /\ err' = "FedAfterFinalize"
    BY DEF FeedAfterFinalize
  <1>2. SkipsInv /\ EndsInv /\ ReadsInv /\ events \in Seq(Event)
    BY DEF ReadStrong, CursorInv, TypeOK
  <1>3. SkipsInv'
    BY <1>1, <1>2 DEF SkipsInv, Bound
  <1>4. EndsInv'
    BY <1>1, <1>2 DEF EndsInv, EOFReported, Ended, InputEnd
  <1>5. ReadsInv'
    <2> SUFFICES ASSUME NEW S, NEW eoi, Possible(S, eoi)'
                 PROVE  HasTold(S, eoi)'
      BY <1>1 DEF ReadsInv
    <2>1. Possible(S, eoi) /\ EOFReported' = EOFReported
      BY <1>1 DEF Possible, Bound, EOFReported
    <2>2. CASE EOFReported
      <3>1. HasTold(S, eoi)
        BY <1>2, <2>1, <2>2 DEF ReadsInv
      <3> QED BY <1>1, <2>2, <3>1 DEF HasTold
    <2>3. CASE ~EOFReported
      <3>1. Extends(events, WholeInput(doc, S, eoi)) /\ WholeInput(doc, S, eoi) \in Seq(Event)
        BY <1>1, <2>1, <2>3, PursuesPrefix DEF Healthy
      <3>2. IsPrefix(events, WholeInput(doc, S, eoi))
        BY <1>2, <3>1, EventsArePrefix
      <3> QED BY <1>1, <2>1, <2>3, <3>2 DEF HasTold
    <2> QED BY <2>2, <2>3
  <1> QED BY <1>3, <1>4, <1>5

\* Asked again the cursor moves nothing, nor where bytes are missing to go on.
LEMMA NextRepeatsReads ==
  ASSUME ReadStrong, NextAgain \/ NextResolveBlocked
  PROVE  SkipsInv' /\ EndsInv' /\ ReadsInv'
  <1>1. UNCHANGED <<doc, p, open, pending, decision, pendOpen, closes, finalized, eofRun, err,
                    events, skipped>>
    BY DEF NextAgain, NextResolveBlocked
  <1>2. SkipsInv /\ EndsInv /\ ReadsInv
    BY DEF ReadStrong
  <1>3. SkipsInv'
    BY <1>1, <1>2 DEF SkipsInv, Bound
  <1>4. EndsInv'
    BY <1>1, <1>2 DEF EndsInv, EOFReported, Ended, InputEnd
  <1>5. \A S, eoi : Possible(S, eoi)' => Possible(S, eoi)
    BY <1>1 DEF Possible, Bound
  <1>6. ReadsInv'
    BY <1>1, <1>2, <1>5, SameReads
  <1> QED BY <1>3, <1>4, <1>6

\* A failure that the input has there as well.
LEMMA FailReads ==
  ASSUME Healthy, NEW why \in StreamErrors, Fail(why), doc' = doc, p'.fed = p.fed,
         \A S, eoi : Possible(S, eoi)'
                       => WholeInput(doc, S, eoi) = Append(events, Outcome("fail", why))
  PROVE  EndsInv' /\ ReadsInv'
  <1>1. err' # "none" /\ events' = Append(events, Outcome("fail", why))
    BY DEF Fail, StreamErrors, Malformed, Incomplete
  <1>2. events' \in Seq(Event)
    BY <1>1, HealthyIs, OutcomeTypes
  <1>3. IsPrefix(events', events')
    <2>1. Extends(events', events')
      BY <1>2 DEF Extends
    <2> QED BY <1>2, <2>1, EventsArePrefix
  <1>4. ReadsInv'
    BY <1>1, <1>3 DEF ReadsInv, HasTold
  <1>5. EndsInv'
    BY <1>1, HealthyIs DEF EndsInv, Ended, InputEnd
  <1> QED BY <1>4, <1>5

\* With no decision pending the masters before the position are settled.
LEMMA SkipsSettled ==
  ASSUME SkipsInv, skipped' = skipped, pending' = "none", p'.pos \in Nat, p.pos <= p'.pos
  PROVE  SkipsInv'
  <1>1. Bound <= p.pos /\ Bound' = p'.pos /\ Bound \in Nat
    BY DEF Bound, SkipsInv
  <1> QED BY <1>1 DEF SkipsInv

\* What may still come about after a call could come about as it carried out the
\* decision pending.
LEMMA SettlesBefore ==
  ASSUME SkipsInv, skipped' = skipped, p'.fed = p.fed, finalized => finalized',
         Bound' \in Nat, p.pos <= Bound', NEW S, NEW eoi, Possible(S, eoi)'
  PROVE  Settles(S, eoi) /\ (finalized' => eoi = p.fed)
  <1>1. \A x \in 0..(p.pos - 1) : x \in 0..(Bound' - 1)
    BY DEF SkipsInv
  <1> QED BY <1>1 DEF Possible, Settles

\* The parser and the stack a call of Next works with once the decision is carried out.
LEMMA ResolvedIs ==
  ASSUME Healthy, ResolveResult = "ok", ~eofRun
  PROVE  /\ Quiet(ResolvedParser) /\ ResolvedParser.fed = p.fed
         /\ ResolvedParser.pos \in Nat /\ p.pos <= ResolvedParser.pos
         /\ ResolvedParser.stack \in Seq(Frame)
         /\ Stacks(ResolvedOpen, ResolvedParser.stack) /\ SameMasters(ResolvedOpen, ResolvedParser.stack)
         /\ closes = << >>
  <1>1. CursorInv /\ err = "none" /\ p.fed \in Nat /\ p.pos \in Nat
    BY HealthyIs
  <1>2. Ready(ResolvedParser, ResolvedOpen) /\ closes = << >>
    BY <1>1, BeforeEOF
  <1>3. Settles(skipped, p.fed)
    BY <1>1 DEF Settles
  <1>4. p.pos <= ResolvedParser.pos
    BY <1>3, ResolvedReads
  <1> QED BY <1>2, <1>4 DEF Ready, Quiet, ParserState, SameMasters, Stacks

\* What the input says from where the decision was carried out on.
LEMMA ResolvedLeads ==
  ASSUME Healthy, ~eofRun, ResolveResult = "ok", NEW S, NEW eoi, Settles(S, eoi)
  PROVE  /\ Reaches(doc, S, eoi, ResolvedOpen, ResolvedParser.stack,
                    Going(events, ResolvedParser.pos))
         /\ eoi \in Nat /\ p.fed <= eoi
  BY ResolvedReads DEF Settles

\* Next fails on what it finds, and so does the recursive descent.
LEMMA StopReads ==
  ASSUME Healthy, ~eofRun, ResolveResult = "ok", NEW why \in StreamErrors, Fail(why),
         p' = ResolvedParser, pending' = "none", UNCHANGED <<doc, skipped>>,
         finalized => finalized',
         \A S, eoi : Settles(S, eoi) /\ (finalized' => eoi = p.fed) =>
           Children(doc, S, eoi)[<<Going(events, ResolvedParser.pos),
                                   PlaceOf(ResolvedOpen, ResolvedParser.stack, Len(ResolvedOpen))>>]
             = Stop(Going(events, ResolvedParser.pos), why)
  PROVE  SkipsInv' /\ EndsInv' /\ ReadsInv'
  <1> DEFINE q == ResolvedParser
             o == ResolvedOpen
             r == Going(events, q.pos)
             x == Stop(r, why)
  <1>1. /\ q.fed = p.fed /\ q.pos \in Nat /\ p.pos <= q.pos /\ Stacks(o, q.stack) /\ q.pos <= q.fed
        /\ q.fed \in Nat
    BY ResolvedIs DEF Quiet, ParserState
  <1>2. SkipsInv /\ doc \in DOMAIN Documents /\ events \in Seq(Event) /\ p.fed \in Nat
    BY HealthyIs
  <1>3. p'.pos = q.pos /\ p'.fed = p.fed /\ Bound' = q.pos
    BY <1>1 DEF Bound
  <1>4. SkipsInv'
    BY <1>1, <1>2, <1>3, SkipsSettled
  <1>5. ASSUME NEW S, NEW eoi, Possible(S, eoi)'
        PROVE  WholeInput(doc, S, eoi) = Append(events, Outcome("fail", why))
    <2>1. Settles(S, eoi) /\ (finalized' => eoi = p.fed)
      BY <1>1, <1>2, <1>3, <1>5, SettlesBefore
    <2>2. Reaches(doc, S, eoi, o, q.stack, r) /\ eoi \in Nat /\ p.fed <= eoi
      BY <2>1, ResolvedLeads
    <2>3. Children(doc, S, eoi)[<<r, PlaceOf(o, q.stack, Len(o))>>] = x
      BY <2>1
    <2>4. x \in Progress(eoi) /\ x.stop = "fail" /\ x.evs = Append(events, Outcome("fail", why))
      <3>1. q.pos \in 0..eoi
        BY <1>1, <2>2
      <3>2. r \in Progress(eoi) /\ r.evs = events
        BY <1>2, <2>2, <3>1, GoingIs
      <3>3. Onward(eoi, r, x)
        BY <2>2, <3>2, StopsOnward
      <3> QED BY <3>2, <3>3 DEF Onward, Stop, Standing
    <2> HIDE DEF x, r, q, o
    <2>5. WholeInput(doc, S, eoi) = x.evs
      BY <1>1, <1>2, <2>2, <2>3, <2>4, ReachesFail
    <2> QED BY <2>4, <2>5
  <1>6. EndsInv' /\ ReadsInv'
    BY <1>3, <1>5, FailReads
  <1> QED BY <1>4, <1>6

\* Next ends a master, and so does the recursive descent.
LEMMA EndReads ==
  ASSUME Healthy, ~eofRun, ResolveResult = "ok", NEW why \in CloseReason, ResolvedOpen # << >>,
         IssueEnd(PopMaster(ResolvedParser), ResolvedOpen, ResolvedParser.pos, why), Settled,
         UNCHANGED <<doc, skipped, closes, eofRun, finalized>>,
         \A S, eoi : Settles(S, eoi) =>
           Children(doc, S, eoi)[<<Going(events, ResolvedParser.pos),
                                   PlaceOf(ResolvedOpen, ResolvedParser.stack, Len(ResolvedOpen))>>]
             = Close(Going(events, ResolvedParser.pos),
                     PlaceOf(ResolvedOpen, ResolvedParser.stack, Len(ResolvedOpen)), why)
  PROVE  SkipsInv' /\ EndsInv' /\ ReadsInv'
  <1> DEFINE q == ResolvedParser
             o == ResolvedOpen
             m == PlaceOf(o, q.stack, Len(o))
             r == Going(events, q.pos)
             e == EndNode(Top(o), Len(o) - 1, q.pos, why)
  <1>1. /\ q.fed = p.fed /\ q.pos \in Nat /\ p.pos <= q.pos /\ Stacks(o, q.stack)
        /\ o \in Seq(OpenMaster)
    BY ResolvedIs DEF Stacks
  <1>2. SkipsInv /\ EndsInv /\ doc \in DOMAIN Documents /\ events \in Seq(Event) /\ p.fed \in Nat
        /\ err = "none" /\ ~EOFReported
    BY HealthyIs
  <1>3. /\ open' = Pop(o) /\ p' = PopMaster(q) /\ events' = Append(events, e) /\ err' = err
        /\ pending' = "none"
    BY DEF IssueEnd, Settled
  <1>4. p'.pos = q.pos /\ p'.fed = p.fed /\ p'.stack = Pop(q.stack) /\ Bound' = q.pos
    BY <1>1, <1>3 DEF PopMaster, At, Bound
  <1>5. SkipsInv'
    BY <1>1, <1>2, <1>3, <1>4, SkipsSettled
  <1>6. e \in Event /\ e.ev # "eof"
    <2>1. Top(o) \in OpenMaster /\ Len(o) - 1 \in Nat
      BY <1>1, PopFacts
    <2> QED BY <1>1, <2>1, EndNodeType DEF EndNode
  <1>7. ~EOFReported'
    BY <1>2, <1>3, <1>6, AppendEvent DEF EOFReported
  <1>8. EndsInv'
    BY <1>2, <1>3, <1>4, <1>7 DEF EndsInv, InputEnd
  <1>9. ASSUME NEW S, NEW eoi, Possible(S, eoi)'
        PROVE  Pursues(S, eoi)'
    <2>1. Settles(S, eoi)
      BY <1>1, <1>2, <1>4, <1>9, SettlesBefore
    <2>2. Reaches(doc, S, eoi, o, q.stack, r)
      BY <2>1, ResolvedLeads
    <2>3. Children(doc, S, eoi)[<<r, m>>] = Close(r, m, why)
      BY <2>1
    <2>4. m.om = Top(o) /\ m.level = Len(o)
      <3>1. Len(o) \in 0..Len(o) /\ Len(o) # 0
        BY <1>1
      <3> QED BY <1>1, <3>1, PlaceOfIs DEF Top
    <2>5. Resume(Close(r, m, why)) = Going(Append(events, e), q.pos)
      BY <2>4 DEF Resume, Close, Going, Standing
    <2>6. Reaches(doc, S, eoi, Pop(o), Pop(q.stack), Resume(Children(doc, S, eoi)[<<r, m>>]))
      BY <1>1, <2>2, ReachesPop
    <2>7. Reaches(doc, S, eoi, Pop(o), Pop(q.stack), Going(Append(events, e), q.pos))
      BY <2>3, <2>5, <2>6
    <2>8. Now(S, eoi)' = Going(Append(events, e), q.pos)
      BY <1>3, <1>4 DEF Now
    <2> QED BY <1>3, <1>4, <2>7, <2>8 DEF Pursues
  <1>10. ReadsInv'
    BY <1>2, <1>3, <1>7, <1>9 DEF ReadsInv
  <1> QED BY <1>5, <1>8, <1>10

\* Nothing is reported, and the cursor rests where the decision led it.
LEMMA RestReads ==
  ASSUME Healthy, ~eofRun, ResolveResult = "ok", p' = ResolvedParser, open' = ResolvedOpen, Settled,
         UNCHANGED <<doc, skipped, closes, eofRun, err, events>>, finalized => finalized'
  PROVE  SkipsInv' /\ EndsInv' /\ ReadsInv'
  <1> DEFINE q == ResolvedParser
             o == ResolvedOpen
  <1>1. /\ q.fed = p.fed /\ q.pos \in Nat /\ p.pos <= q.pos /\ pending' = "none"
    BY ResolvedIs DEF Settled
  <1>2. SkipsInv /\ EndsInv /\ err = "none" /\ ~EOFReported
    BY HealthyIs
  <1>3. p'.pos = q.pos /\ p'.fed = p.fed /\ p'.stack = q.stack /\ Bound' = q.pos
    BY <1>1 DEF Bound
  <1>4. SkipsInv'
    BY <1>1, <1>2, <1>3, SkipsSettled
  <1>5. EOFReported' = EOFReported
    BY DEF EOFReported
  <1>6. EndsInv'
    BY <1>2, <1>3, <1>5 DEF EndsInv, InputEnd
  <1>7. ASSUME NEW S, NEW eoi, Possible(S, eoi)'
        PROVE  Pursues(S, eoi)'
    <2>1. Settles(S, eoi)
      BY <1>1, <1>2, <1>3, <1>7, SettlesBefore
    <2>2. Reaches(doc, S, eoi, o, q.stack, Going(events, q.pos))
      BY <2>1, ResolvedLeads
    <2>3. Now(S, eoi)' = Going(events, q.pos)
      BY <1>1, <1>3 DEF Now
    <2> QED BY <1>3, <2>2, <2>3 DEF Pursues
  <1>8. ReadsInv'
    BY <1>2, <1>5, <1>7 DEF ReadsInv
  <1> QED BY <1>4, <1>6, <1>8

\* There is something to report, so nothing is final.
LEMMA PeekedHealthy ==
  ASSUME ReadStrong, err = "none", ResolveResult = "ok", closes = << >>,
         PeekResult(doc, ResolvedParser) # "NeedMoreData"
  PROVE  Healthy /\ ~eofRun
  <1>1. CursorInv
    BY DEF ReadStrong
  <1>2. ~eofRun
    BY <1>1, PeekedMore
  <1>3. ~EOFReported
    BY <1>1, <1>2, BeforeEOF
  <1> QED BY <1>2, <1>3 DEF Healthy

\* What the list of elements makes of what Peek found once the decision is carried out.
LEMMA ResolvedPeek ==
  ASSUME Healthy, ~eofRun, ResolveResult = "ok", NEW S, NEW eoi, Settles(S, eoi)
  PROVE  PeekMeans(doc, S, eoi, ResolvedParser, ResolvedOpen, events)
  <1>1. /\ Quiet(ResolvedParser) /\ ResolvedParser.fed = p.fed
        /\ Stacks(ResolvedOpen, ResolvedParser.stack)
    BY ResolvedIs
  <1>2. doc \in DOMAIN Documents /\ events \in Seq(Event)
    BY HealthyIs
  <1>3. eoi \in Nat /\ ResolvedParser.fed <= eoi
    BY <1>1 DEF Settles
  <1> QED BY <1>1, <1>2, <1>3, PeekReads

\* Next ends a master at its declared end.
LEMMA NextEndReads ==
  ASSUME ReadStrong, NextEnd
  PROVE  SkipsInv' /\ EndsInv' /\ ReadsInv'
  <1> USE DEF NextEnd, AdvanceEnd, Idle
  <1> DEFINE q == ResolvedParser
             o == ResolvedOpen
  <1>1. Healthy /\ ~eofRun
    BY PeekedHealthy
  <1>2. AtMasterEnd(q) /\ Quiet(q) /\ SameMasters(o, q.stack) /\ o \in Seq(OpenMaster)
    BY <1>1, ResolvedIs, HealthyIs, PeekAnswers DEF Stacks
  <1>3. q.stack # << >> /\ LeaveMasterResult(q) = "ok" /\ o # << >>
    <2>0. q.stack # << >>
      BY <1>2 DEF AtMasterEnd
    <2>1. Top(q.stack) \in Frame /\ q.pos \in Nat
      BY <1>2, <2>0, PopFacts DEF Quiet, ParserState
    <2>2. LeaveMasterResult(q) = "ok"
      BY <1>2, <2>1 DEF AtMasterEnd, LeaveMasterResult, Frame, Extent, UnknownSize
    <2>3. o # << >>
      BY <1>2, <2>0, PopKeepsMasters DEF Quiet, ParserState
    <2> QED BY <2>0, <2>2, <2>3
  <1>4. \A S, eoi : Settles(S, eoi) =>
          Children(doc, S, eoi)[<<Going(events, q.pos), PlaceOf(o, q.stack, Len(o))>>]
            = Close(Going(events, q.pos), PlaceOf(o, q.stack, Len(o)), "DeclaredEnd")
    BY <1>1, ResolvedPeek DEF PeekMeans
  <1> HIDE DEF q, o
  <1>5. IssueEnd(PopMaster(q), o, q.pos, "DeclaredEnd") /\ Settled
    BY <1>3 DEF q, o
  <1>6. UNCHANGED <<doc, skipped, closes, eofRun, finalized>>
    OBVIOUS
  <1>7. ResolveResult = "ok"
    OBVIOUS
  <1> QED BY ONLY <1>1, <1>3, <1>4, <1>5, <1>6, <1>7, EndReads DEF CloseReason, q, o

\* Next fails on a malformed header.
LEMMA NextMalformedReads ==
  ASSUME ReadStrong, NextMalformed
  PROVE  SkipsInv' /\ EndsInv' /\ ReadsInv'
  <1> USE DEF NextMalformed, Idle
  <1> DEFINE q == ResolvedParser
             o == ResolvedOpen
             why == PeekResult(doc, q)
  <1>1. Healthy /\ ~eofRun
    BY PeekedHealthy DEF Malformed, Misuse
  <1>2. why \in Malformed
    <2>1. Quiet(q) /\ doc \in DOMAIN Documents
      BY <1>1, ResolvedIs, HealthyIs
    <2> QED BY <2>1, PeekAnswers DEF Malformed, Misuse
  <1>3. \A S, eoi : Settles(S, eoi) =>
          Children(doc, S, eoi)[<<Going(events, q.pos), PlaceOf(o, q.stack, Len(o))>>]
            = Stop(Going(events, q.pos), why)
    BY <1>1, <1>2, ResolvedPeek DEF PeekMeans
  <1> HIDE DEF q, o, why
  <1>4. Fail(why) /\ p' = q /\ pending' = "none" /\ UNCHANGED <<doc, skipped, finalized>>
        /\ ResolveResult = "ok"
    BY DEF Settled, why, q
  <1>5. why \in StreamErrors
    BY <1>2 DEF StreamErrors
  <1> QED BY ONLY <1>1, <1>3, <1>4, <1>5, StopReads DEF q, o

\* Next asks for more bytes.
LEMMA NextNeedsMoreReads ==
  ASSUME ReadStrong, NextNeedsMore
  PROVE  SkipsInv' /\ EndsInv' /\ ReadsInv'
  <1>1. CursorInv /\ err = "none" /\ ~finalized /\ ResolveResult = "ok"
    BY DEF ReadStrong, NextNeedsMore
  <1>2. ~eofRun
    BY <1>1 DEF CursorInv, EOFRunDrained
  <1>3. Healthy
    BY <1>1, <1>2, BeforeEOF DEF Healthy
  <1> QED BY <1>1, <1>2, <1>3, RestReads DEF NextNeedsMore, Idle

\* A master of unknown size cannot be skipped.
LEMMA ResolveFailsReads ==
  ASSUME ReadStrong, err = "none", ResolveResult \notin {"ok", "NeedMoreData"},
         Fail(ResolveResult), finalized => finalized',
         UNCHANGED <<doc, p, open, pending, decision, pendOpen, closes, eofRun, skipped>>
  PROVE  SkipsInv' /\ EndsInv' /\ ReadsInv'
  <1>1. CursorInv /\ SkipsInv
    BY DEF ReadStrong
  <1>2. ResolveResult = "SkipUnknownSize"
    BY <1>1, Resolving
  <1>3. pending = "master" /\ decision = "skipSubtree" /\ p.current.size = UnknownSize /\ ~eofRun
    <2>1. pending = "master" /\ decision = "skipSubtree" /\ pendOpen.size = UnknownSize
      BY <1>2 DEF ResolveResult, PayloadResult, EnterMasterResult, SkipPayloadResult
    <2> QED BY <1>1, <2>1 DEF CursorInv, PendingMatches
  <1>4. Healthy
    <2>1. ~EOFReported
      BY <1>1, <1>3 DEF CursorInv, CleanEOF
    <2> QED BY <2>1 DEF Healthy
  <1>5. SkipsInv'
    BY <1>1 DEF SkipsInv, Bound
  <1>6. ASSUME NEW S, NEW eoi, Possible(S, eoi)'
        PROVE  WholeInput(doc, S, eoi) = Append(events, Outcome("fail", "SkipUnknownSize"))
    <2>1. Possible(S, eoi)
      BY <1>6 DEF Possible, Bound
    <2> DEFINE r == Going(events, p.pos)
               x == Stop(r, "SkipUnknownSize")
    <2>2. pendOpen.offset \in S
      <3>1. pendOpen.offset \in skipped /\ pendOpen.offset \in Nat /\ pendOpen.offset < p.pos
            /\ p.pos \in Nat
        BY <1>1, <1>3 DEF SkipsInv
      <3>2. Bound = p.pos
        BY <1>3 DEF Bound
      <3> QED BY <2>1, <3>1, <3>2 DEF Possible
    <2>3. Now(S, eoi) = x
      BY <1>3, <2>2 DEF Now
    <2>4. /\ eoi \in Nat /\ doc \in DOMAIN Documents /\ Stacks(open, p.stack)
          /\ Len(open) \in 0..Len(open)
      BY <1>3, <1>4, <2>1, HealthyIs DEF Possible, CursorInv, StackMirror, SameMasters, Stacks
    <2>5. x \in Progress(eoi)
      BY <1>3, <1>4, <2>1, <2>3, NowIs
    <2>6. x.stop = "fail" /\ x.evs = Append(events, Outcome("fail", "SkipUnknownSize"))
      BY DEF Stop, Standing, Going
    <2>7. Reaches(doc, S, eoi, open, p.stack, x)
      BY <1>3, <1>4, <2>1, <2>3, HealthyIs DEF Pursues
    <2>8. PlaceOf(open, p.stack, Len(open)) \in Place
      BY <2>4, PlaceOfIs
    <2> HIDE DEF x, r
    <2>9. Children(doc, S, eoi)[<<x, PlaceOf(open, p.stack, Len(open))>>] = x
      BY <2>4, <2>5, <2>6, <2>8, StoppedReads
    <2> QED BY <2>4, <2>5, <2>6, <2>7, <2>9, ReachesFail
  <1>7. EndsInv' /\ ReadsInv'
    BY <1>2, <1>4, <1>6, FailReads DEF StreamErrors
  <1> QED BY <1>5, <1>7

\* Next reports an element, or the boundary that its header is.
LEMMA NextHeaderReads ==
  ASSUME ReadStrong, NextHeader
  PROVE  SkipsInv' /\ EndsInv' /\ ReadsInv'
  <1> USE DEF NextHeader, Idle
  <1> DEFINE q == ResolvedParser
             o == ResolvedOpen
             h == HeaderAt(doc, q.pos)
             e == ElementNode(KindOf[h.id], h, q.pos, Len(o))
             end == PlaceOf(o, q.stack, Len(o)).end
  <1>1. Healthy /\ ~eofRun /\ ResolveResult = "ok" /\ PeekResult(doc, q) = "ok"
        /\ AdvanceHeader(q, o) /\ UNCHANGED <<closes, eofRun, doc, finalized, skipped>>
    BY PeekedHealthy
  <1>2. /\ Quiet(q) /\ q.fed = p.fed /\ q.pos \in Nat /\ q.fed \in Nat /\ p.pos <= q.pos
        /\ q.stack \in Seq(Frame)
        /\ Stacks(o, q.stack) /\ SameMasters(o, q.stack) /\ o \in Seq(OpenMaster)
    BY <1>1, ResolvedIs DEF Stacks, Quiet, ParserState
  <1>3. SkipsInv /\ EndsInv /\ doc \in DOMAIN Documents /\ events \in Seq(Event) /\ p.fed \in Nat
        /\ err = "none" /\ ~EOFReported /\ p.pos \in Nat
    BY <1>1, HealthyIs
  <1>4. /\ h \in Header /\ HeaderLen(h) \in 1..(q.fed - q.pos)
        /\ h.size = UnknownSize => KindOf[h.id] = "master"
    BY <1>1, <1>2, <1>3, PeekAnswers
  <1>5. KindOf[h.id] \in Kind /\ h.id \in ElementID /\ h.size \in Extent
    BY <1>4, Assumption DEF DocumentsAssumption, Header, Extent
  <1>6. ASSUME NEW S, NEW eoi, Settles(S, eoi)
        PROVE  PeekMeans(doc, S, eoi, q, o, events)
    BY <1>1, <1>6, ResolvedPeek
  <1> HIDE DEF q, o, h, e, end
  <1>7. CASE KindOf[h.id] = "endmaster"
    <2>1. Fail("Classifier") /\ p' = q /\ open' = o /\ Settled
      BY <1>1, <1>7 DEF AdvanceHeader, h
    <2>2. \A S, eoi : Settles(S, eoi) =>
            Children(doc, S, eoi)[<<Going(events, q.pos), PlaceOf(o, q.stack, Len(o))>>]
              = Stop(Going(events, q.pos), "Classifier")
      BY <1>1, <1>6, <1>7 DEF PeekMeans, h
    <2>3. "Classifier" \in StreamErrors /\ pending' = "none"
      BY <2>1 DEF StreamErrors, Settled
    <2> QED BY ONLY <1>1, <2>1, <2>2, <2>3, StopReads DEF q, o
  <1>8. CASE KindOf[h.id] # "endmaster" /\ CrossesBoundary(q, o, h)
    <2>1. o # << >> /\ Top(o).size = UnknownSize
      BY <1>8 DEF CrossesBoundary
    <2>2. q.stack # << >>
      BY <1>2, <2>1, EmptySeq, LenProperties DEF SameMasters
    <2>3. Top(q.stack).end = UnknownSize
      BY <1>2, <2>1, <2>2, PopKeepsMasters
    <2>4. CloseMasterResult(q) = "ok"
      BY <2>2, <2>3 DEF CloseMasterResult
    <2>5. IssueEnd(PopMaster(q), o, q.pos, "Boundary") /\ Settled
      BY <1>1, <1>8, <2>4 DEF AdvanceHeader, h
    <2>6. \A S, eoi : Settles(S, eoi) =>
            Children(doc, S, eoi)[<<Going(events, q.pos), PlaceOf(o, q.stack, Len(o))>>]
              = Close(Going(events, q.pos), PlaceOf(o, q.stack, Len(o)), "Boundary")
      BY <1>1, <1>6, <1>8 DEF PeekMeans, h
    <2>7. "Boundary" \in CloseReason
      BY DEF CloseReason
    <2> QED BY ONLY <1>1, <2>1, <2>5, <2>6, <2>7, EndReads DEF q, o
  <1>9. CASE KindOf[h.id] \in {"master", "leaf"} /\ ~CrossesBoundary(q, o, h)
    <2> DEFINE c == [id |-> h.id, kind |-> KindOf[h.id], size |-> h.size, offset |-> q.pos]
               om == [id |-> h.id, offset |-> q.pos, size |-> h.size]
               at == q.pos + HeaderLen(h)
    <2>1. /\ p' = At(q, at, q.stack, c) /\ open' = o
          /\ pending' = KindOf[h.id] /\ decision' = "none"
          /\ pendOpen' = IF KindOf[h.id] = "master" THEN om ELSE NoMaster
          /\ events' = Append(events, e) /\ err' = err
      BY <1>1, <1>9 DEF AdvanceHeader, ConsumeHeader, h, e
    <2>2. p'.pos = at /\ p'.fed = p.fed /\ p'.stack = q.stack /\ p'.current = c
      BY <1>2, <2>1 DEF At
    <2>3. at \in Nat /\ q.pos < at
      BY <1>2, <1>4
    <2>4. Bound' = IF KindOf[h.id] = "master" THEN q.pos ELSE at
      BY <1>9, <2>1, <2>2 DEF Bound
    <2> HIDE DEF at
    <2>5. Bound' \in Nat /\ p.pos <= Bound'
      BY <1>2, <1>3, <2>3, <2>4
    <2>6. e \in Event /\ e.ev # "eof"
      BY <1>2, <1>4, <1>9, ElementNodeType, LenProperties DEF ElementNode, e
    <2>7. ~EOFReported'
      BY <1>3, <2>1, <2>6, AppendEvent DEF EOFReported
    <2>8. SkipsInv'
      <3>1. \A x \in skipped : x \in Nat /\ x < p.pos
        BY <1>3 DEF SkipsInv, Bound
      <3>2. \A x \in skipped : x \in Nat /\ x < Bound' /\ x # q.pos
        BY <1>2, <1>3, <2>5, <3>1
      <3> QED BY <1>1, <1>2, <1>9, <2>1, <2>2, <2>3, <3>2 DEF SkipsInv
    <2>9. EndsInv'
      BY <1>1, <1>3, <2>1, <2>2, <2>7 DEF EndsInv, InputEnd
    <2>10. ASSUME NEW S, NEW eoi, Possible(S, eoi)'
           PROVE  Pursues(S, eoi)'
      <3> DEFINE m == PlaceOf(o, q.stack, Len(o))
                 r == Going(events, q.pos)
                 list == Children(doc, S, eoi)
                 into == [om |-> om, level |-> Len(o) + 1, end |-> EndOf(h, q.pos)]
      <3>1. Settles(S, eoi)
        BY <1>1, <1>3, <2>2, <2>5, <2>10, SettlesBefore
      <3>2. Reaches(doc, S, eoi, o, q.stack, r)
        BY <1>1, <3>1, ResolvedLeads DEF q, o
      <3>3. list[<<r, m>>] = list[<<Past(list, doc, S, eoi, r, m), m>>]
        BY <1>1, <1>6, <1>8, <1>9, <3>1 DEF PeekMeans, h
      <3>4. m.level = Len(o)
        <4>1. Len(o) \in 0..Len(o)
          BY <1>2
        <4> QED BY <1>2, <4>1, PlaceOfIs
      <3>5. r.pos = q.pos /\ r.evs = events
        BY DEF Going, Standing
      <3>6. ReadAt(doc, r, m) = Going(Append(events, e), at) /\ InsideOf(doc, r, m) = into
        BY <3>4, <3>5 DEF ReadAt, InsideOf, at, h, e
      <3>7. Past(list, doc, S, eoi, r, m) =
              IF KindOf[h.id] = "leaf" \/ (q.pos \in S /\ h.size # UnknownSize)
              THEN PastPayload(Going(Append(events, e), at), h.size, eoi)
              ELSE IF q.pos \in S THEN Stop(Going(Append(events, e), at), "SkipUnknownSize")
              ELSE Resume(list[<<Going(Append(events, e), at), into>>])
        BY <3>5, <3>6, PastDef DEF h
      <3>8. EndOf(h, q.pos) = IF h.size = UnknownSize THEN UnknownSize ELSE at + h.size
        BY DEF EndOf, at
      <3>9. Now(S, eoi)' = Past(list, doc, S, eoi, r, m)
        BY <1>1, <1>9, <2>1, <2>2, <3>7, <3>8, SMTT(30) DEF Now
      <3>10. Reaches(doc, S, eoi, o, q.stack, Past(list, doc, S, eoi, r, m))
        BY <3>2, <3>3, ReachesSame
      <3> HIDE DEF m, r, list, into
      <3> QED BY <1>1, <2>1, <2>2, <3>9, <3>10 DEF Pursues
    <2>11. ReadsInv'
      BY <1>3, <2>1, <2>7, <2>10 DEF ReadsInv
    <2> QED BY <2>8, <2>9, <2>11
  <1> QED BY <1>5, <1>7, <1>8, <1>9 DEF Kind

-----------------------------------------------------------------------------
(* The end of the input.                                                   *)

\* The next master drained is the innermost.
LEMMA DrainsOn ==
  ASSUME NEW d \in DOMAIN Documents, NEW S, NEW eoi \in Nat, NEW o, o # << >>, NEW pos, NEW evs,
         Drains(d, S, eoi, o, pos, evs)
  PROVE  Drains(d, S, eoi, Pop(o), pos,
                Append(evs, EndNode(Top(o), Len(o) - 1, pos, "EndOfInput")))
  <1>1. PICK s, x : /\ Stacks(o, s) /\ x \in Progress(eoi)
                    /\ \A i \in 1..Len(o) : s[i].end = UnknownSize \/ pos >= s[i].end
                    /\ x.stop = "out" /\ x.pos = pos /\ x.closed = evs /\ x.short = FALSE
                    /\ Reaches(d, S, eoi, o, s, x)
    BY DEF Drains
  <1> DEFINE m == PlaceOf(o, s, Len(o))
             y == LeftOpen(x, m)
             evs1 == Append(evs, EndNode(Top(o), Len(o) - 1, pos, "EndOfInput"))
  <1>2. /\ o \in Seq(OpenMaster) /\ s \in Seq(Frame) /\ Len(o) \in 0..Len(o) /\ Len(o) # 0
        /\ Len(s) = Len(o) /\ s # << >>
    BY <1>1 DEF Stacks
  <1>3. m \in Place /\ m.level = Len(o) /\ m.end = s[Len(o)].end /\ m.om = Top(o)
    BY <1>1, <1>2, PlaceOfIs DEF Top
  <1>4. y \in Progress(eoi)
    BY <1>1, <1>3, LeftOpenOnward DEF Onward
  <1>5. y.stop = "out" /\ y.pos = pos /\ y.closed = evs1
    BY <1>1, <1>2, <1>3 DEF LeftOpen, Standing
  <1>6. y.short = FALSE
    <2>1. s[Len(o)].end = UnknownSize \/ pos >= s[Len(o)].end
      BY <1>1, <1>2
    <2>2. pos \in Nat /\ s[Len(o)] \in Frame
      BY <1>1, <1>2 DEF Progress
    <2>3. ~(m.end # UnknownSize /\ x.pos < m.end)
      BY <1>1, <1>3, <2>1, <2>2 DEF Frame, Extent, UnknownSize
    <2> QED BY <1>1, <1>2, <1>3, <2>3 DEF LeftOpen, Standing
  <1>7. /\ Len(Pop(o)) = Len(o) - 1 /\ \A i \in 1..(Len(o) - 1) : Pop(s)[i] = s[i]
    <2>1. Len(Pop(o)) = Len(o) - 1
      BY <1>1, <1>2, PopFacts
    <2>2. \A i \in 1..(Len(s) - 1) : Pop(s)[i] = s[i]
      BY <1>2, PopFacts
    <2> QED BY <1>2, <2>1, <2>2
  <1>8. \A i \in 1..Len(Pop(o)) : Pop(s)[i].end = UnknownSize \/ pos >= Pop(s)[i].end
    BY <1>1, <1>2, <1>7
  <1>9. Stacks(Pop(o), Pop(s))
    BY <1>1, ReachesPop
  <1>10. Reaches(d, S, eoi, Pop(o), Pop(s), y)
    BY <1>1, ReachesClosing
  <1> HIDE DEF y, m, evs1
  <1> QED BY <1>4, <1>5, <1>6, <1>8, <1>9, <1>10 DEF Drains, evs1

\* When all are drained the end of the input is reported.
LEMMA DrainsOut ==
  ASSUME NEW d \in DOMAIN Documents, NEW S, NEW eoi \in Nat, NEW pos, NEW evs, NEW o, o = << >>,
         Drains(d, S, eoi, o, pos, evs)
  PROVE  WholeInput(d, S, eoi) = Append(evs, Outcome("eof", "none"))
  <1>1. PICK s, x : /\ Stacks(o, s) /\ x \in Progress(eoi)
                    /\ x.stop = "out" /\ x.closed = evs /\ x.short = FALSE
                    /\ Reaches(d, S, eoi, o, s, x)
    BY DEF Drains
  <1> QED BY <1>1, ReachesEOF

\* The end of the input is reported on both sides.
LEMMA EOFReads ==
  ASSUME Healthy, doc' = doc, p'.fed = p.fed, events' = Append(events, Outcome("eof", "none")),
         closes' = << >>,
         \A S, eoi : Possible(S, eoi)'
                       => WholeInput(doc, S, eoi) = Append(events, Outcome("eof", "none"))
  PROVE  EndsInv' /\ ReadsInv'
  <1>1. events \in Seq(Event) /\ EndsInv
    BY HealthyIs
  <1>2. events' \in Seq(Event) /\ Len(events') \in 1..Len(events')
        /\ events'[Len(events')] = Outcome("eof", "none") /\ events' # << >>
    BY <1>1, OutcomeTypes
  <1>3. EOFReported' /\ Ended'
    BY <1>2 DEF EOFReported, Ended, Top, Outcome
  <1>4. IsPrefix(events', events')
    <2>1. Extends(events', events')
      BY <1>2 DEF Extends
    <2> QED BY <1>2, <2>1, EventsArePrefix
  <1>5. ReadsInv'
    BY <1>3, <1>4 DEF ReadsInv, HasTold
  <1>6. EndsInv'
    <2>1. Len(closes') = 0
      BY EmptySeq
    <2> QED BY <1>1, <1>3, <2>1 DEF EndsInv, InputEnd
  <1> QED BY <1>5, <1>6

\* The end of a master was reported, the input being over.
LEMMA DrainReads ==
  ASSUME doc' = doc, p'.fed = p.fed, EndsInv, ~EOFReported', eofRun', err' = "none",
         doc \in DOMAIN Documents, p'.fed \in Nat,
         \A i \in 1..Len(closes') : closes'[i].end = p'.pos,
         \A S, eoi : Possible(S, eoi)' => Drains(doc', S, eoi, open', p'.pos, events')
  PROVE  EndsInv' /\ ReadsInv'
  <1>1. EndsInv'
    BY DEF EndsInv, InputEnd
  <1>2. ASSUME NEW S, NEW eoi, Possible(S, eoi)'
        PROVE  Pursues(S, eoi)'
    BY <1>2 DEF Pursues
  <1>3. ReadsInv'
    BY <1>2 DEF ReadsInv
  <1> QED BY <1>1, <1>3

\* Next reports a master closed by the end of the input.
LEMMA NextDequeueReads ==
  ASSUME ReadStrong, NextDequeue
  PROVE  SkipsInv' /\ EndsInv' /\ ReadsInv'
  <1> USE DEF NextDequeue, Idle
  <1> DEFINE e == EndNode(Top(open), Len(open) - 1, p.pos, "EndOfInput")
  <1>1. CursorInv /\ SkipsInv /\ EndsInv /\ err = "none" /\ ResolveResult = "ok" /\ closes # << >>
    BY DEF ReadStrong
  <1>2. eofRun
    BY <1>1, Resolving
  <1>3. ResolvedParser = p /\ ResolvedOpen = open /\ ClosesAll(closes, open) /\ finalized
        /\ pending = "none" /\ ~EOFReported
    BY <1>1, <1>2, Resolving DEF CursorInv, StackMirror, EOFRunDrained, CleanEOF
  <1>4. /\ open \in Seq(OpenMaster) /\ closes \in Seq([id : ElementID, end : Nat])
        /\ p.pos \in Nat /\ p.fed \in Nat /\ doc \in DOMAIN Documents /\ events \in Seq(Event)
    BY <1>1 DEF CursorInv, TypeOK, SkipsInv, ParserState
  <1>5. open # << >> /\ Top(open).id = Head(closes).id
    BY <1>1, <1>3, <1>4, DequeueKeepsClosing
  <1>6. Head(closes).end = p.pos /\ (\A i \in 1..Len(Tail(closes)) : Tail(closes)[i].end = p.pos)
    <2>1. \A i \in 1..Len(closes) : closes[i].end = p.pos
      BY <1>1, <1>2 DEF EndsInv
    <2>2. Len(Tail(closes)) = Len(closes) - 1 /\ Head(closes) = closes[1] /\ 1 \in 1..Len(closes)
          /\ Len(closes) \in Nat
      BY <1>1, <1>4
    <2>3. \A i \in 1..Len(Tail(closes)) : Tail(closes)[i] = closes[i + 1] /\ i + 1 \in 1..Len(closes)
      BY <1>1, <1>4, <2>2
    <2> QED BY <2>1, <2>2, <2>3
  <1>7. DequeueClose(p, open, closes) /\ Settled /\ UNCHANGED <<eofRun, doc, finalized, skipped>>
    BY <1>3
  <1>8. /\ open' = Pop(open) /\ p' = p /\ closes' = Tail(closes) /\ err' = err
        /\ events' = Append(events, e) /\ pending' = "none"
    BY <1>5, <1>6, <1>7 DEF DequeueClose, IssueEnd, Settled
  <1>9. e \in Event /\ e.ev # "eof"
    <2>1. Top(open) \in OpenMaster /\ Len(open) - 1 \in Nat
      BY <1>4, <1>5, PopFacts
    <2> QED BY <1>4, <2>1, EndNodeType DEF EndNode, CloseReason
  <1> HIDE DEF e
  <1>10. ~EOFReported'
    BY <1>3, <1>4, <1>8, <1>9, AppendEvent DEF EOFReported
  <1>11. SkipsInv'
    <2>1. p'.pos = p.pos /\ p.pos <= p.pos
      BY <1>4, <1>8
    <2> QED BY <1>1, <1>4, <1>7, <1>8, <2>1, SkipsSettled
  <1>12. ASSUME NEW S, NEW eoi, Possible(S, eoi)'
         PROVE  Drains(doc', S, eoi, open', p'.pos, events')
    <2>1. Possible(S, eoi) /\ eoi \in Nat
      BY <1>3, <1>7, <1>8, <1>12 DEF Possible, Bound
    <2>2. Drains(doc, S, eoi, open, p.pos, events)
      BY <1>1, <1>2, <1>3, <2>1 DEF ReadStrong, ReadsInv, Pursues
    <2>3. Drains(doc, S, eoi, Pop(open), p.pos, Append(events, e))
      BY <1>4, <1>5, <2>1, <2>2, DrainsOn DEF e
    <2> QED BY <1>7, <1>8, <2>3
  <1>13. EndsInv' /\ ReadsInv'
    BY <1>1, <1>2, <1>4, <1>6, <1>7, <1>8, <1>10, <1>12, DrainReads
  <1> QED BY <1>11, <1>13

\* Next reports the end of the input.
LEMMA NextEOFReads ==
  ASSUME ReadStrong, NextEOF
  PROVE  SkipsInv' /\ EndsInv' /\ ReadsInv'
  <1> USE DEF NextEOF, Idle
  <1>1. CursorInv /\ SkipsInv /\ EndsInv /\ err = "none" /\ ResolveResult = "ok" /\ eofRun
        /\ closes = << >>
    BY DEF ReadStrong
  <1>2. ResolvedParser = p /\ ResolvedOpen = open /\ ClosesAll(closes, open) /\ pending = "none"
    BY <1>1, Resolving DEF CursorInv, StackMirror, EOFRunDrained
  <1>3. open \in Seq(OpenMaster) /\ doc \in DOMAIN Documents /\ p.pos \in Nat
    BY <1>1 DEF CursorInv, TypeOK, SkipsInv
  <1>4. open = << >>
    BY <1>1, <1>2, <1>3, EmptySeq DEF ClosesAll
  <1>5. ~EOFReported
    BY <1>1 DEF EndsInv
  <1>6. Healthy
    BY <1>1, <1>5 DEF Healthy
  <1>7. p' = p /\ closes' = << >> /\ events' = Append(events, Outcome("eof", "none"))
        /\ pending' = "none" /\ UNCHANGED <<doc, finalized, skipped, eofRun>>
    BY <1>1, <1>2 DEF Settled
  <1>8. SkipsInv'
    <2>1. p'.pos = p.pos /\ p.pos <= p.pos
      BY <1>3, <1>7
    <2> QED BY <1>1, <1>3, <1>7, <2>1, SkipsSettled
  <1>9. ASSUME NEW S, NEW eoi, Possible(S, eoi)'
        PROVE  WholeInput(doc, S, eoi) = Append(events, Outcome("eof", "none"))
    <2>1. Possible(S, eoi) /\ eoi \in Nat
      BY <1>2, <1>7, <1>9 DEF Possible, Bound
    <2>2. Drains(doc, S, eoi, open, p.pos, events)
      BY <1>1, <1>5, <2>1 DEF ReadStrong, ReadsInv, Pursues
    <2> QED BY <1>3, <1>4, <2>1, <2>2, DrainsOut
  <1>10. EndsInv' /\ ReadsInv'
    BY <1>6, <1>7, <1>9, EOFReads
  <1> QED BY <1>8, <1>10

\* What the input says when it ends where the bytes fed do.
LEMMA EndOfInputReads ==
  ASSUME Healthy, ~eofRun, ResolveResult = "ok", PeekResult(doc, ResolvedParser) = "NeedMoreData",
         NEW S, Settles(S, p.fed)
  PROVE  /\ FinalizeEOFResult(doc, ResolvedParser) # "ok" =>
              WholeInput(doc, S, p.fed)
                = Append(events, Outcome("fail", FinalizeEOFResult(doc, ResolvedParser)))
         /\ FinalizeEOFResult(doc, ResolvedParser) = "ok" =>
              Drains(doc, S, p.fed, ResolvedOpen, ResolvedParser.pos, events)
  <1> DEFINE q == ResolvedParser
             o == ResolvedOpen
             m == PlaceOf(o, q.stack, Len(o))
             r == Going(events, q.pos)
             eoi == p.fed
             Cut(i) == q.stack[i].end # UnknownSize /\ q.pos < q.stack[i].end
  <1>1. /\ q.fed = eoi /\ q.pos \in Nat /\ Stacks(o, q.stack) /\ q.pos <= eoi /\ eoi \in Nat
        /\ q.stack \in Seq(Frame) /\ Quiet(q) /\ Len(q.stack) = Len(o) /\ o \in Seq(OpenMaster)
    BY ResolvedIs DEF Quiet, ParserState, Stacks
  <1>2. doc \in DOMAIN Documents /\ events \in Seq(Event)
    BY HealthyIs
  <1>3. Reaches(doc, S, eoi, o, q.stack, r)
    BY ResolvedLeads
  <1>4. PeekMeans(doc, S, eoi, q, o, events)
    BY ResolvedPeek
  <1>5. /\ q.pos < eoi => Children(doc, S, eoi)[<<r, m>>] = Stop(r, "TruncatedHeader")
        /\ o # << >> => q.stack[Len(o)].end = UnknownSize \/ q.pos < q.stack[Len(o)].end
    BY <1>1, <1>4 DEF PeekMeans
  <1>6. /\ q.pos < eoi => FinalizeEOFResult(doc, q) = "TruncatedHeader"
        /\ q.pos = eoi => FinalizeEOFResult(doc, q) =
                            IF \E i \in 1..Len(o) : Cut(i) THEN "UnfinishedMaster" ELSE "ok"
    BY <1>1, <1>2, EndOfInputAnswers
  <1>7. r \in Progress(eoi) /\ r.evs = events /\ r.pos = q.pos /\ r.stop = "go" /\ Sound(r)
    <2>1. q.pos \in 0..eoi
      BY <1>1
    <2> QED BY <1>1, <1>2, <2>1, GoingIs
  <1>8. CASE q.pos < eoi
    <2> DEFINE x == Stop(r, "TruncatedHeader")
    <2>1. x \in Progress(eoi)
      BY <1>1, <1>7, StopsOnward DEF Onward, StreamErrors, Incomplete
    <2>2. x.stop = "fail" /\ x.evs = Append(events, Outcome("fail", "TruncatedHeader"))
      BY <1>7 DEF Stop, Standing
    <2>3. Children(doc, S, eoi)[<<r, m>>] = x
      BY <1>5, <1>8
    <2> HIDE DEF x, r, q, o
    <2>4. WholeInput(doc, S, eoi) = x.evs
      BY <1>1, <1>2, <1>3, <2>1, <2>2, <2>3, ReachesFail
    <2> QED BY <1>6, <1>8, <2>2, <2>4 DEF q
  <1>9. CASE q.pos = eoi
    <2> DEFINE x == OutOfInput(r)
    <2>1. Reaches(doc, S, eoi, o, q.stack, x)
      <3> HIDE DEF q, o, r
      <3> QED BY <1>1, <1>2, <1>3, <1>5, <1>7, <1>9, ReachesOut
    <2>2. /\ x \in Progress(eoi) /\ x.stop = "out" /\ x.evs = events /\ x.closed = events
          /\ x.pos = q.pos /\ x.short = FALSE
      BY <1>1, <1>7, OutOfInputOnward DEF Onward
    <2> HIDE DEF x, r
    <2>3. ASSUME NEW i \in 1..Len(o), Cut(i)
          PROVE  WholeInput(doc, S, eoi) = Append(events, Outcome("fail", "UnfinishedMaster"))
      <3> HIDE DEF q, o
      <3> QED BY <1>1, <1>2, <2>1, <2>2, <2>3, ReachesUnfinished
    <2>4. ASSUME \A i \in 1..Len(o) : ~Cut(i)
          PROVE  Drains(doc, S, eoi, o, q.pos, events)
      <3>1. \A i \in 1..Len(o) : q.stack[i].end = UnknownSize \/ q.pos >= q.stack[i].end
        <4> TAKE i \in 1..Len(o)
        <4>1. q.stack[i] \in Frame
          BY <1>1
        <4>2. ~Cut(i)
          BY <2>4
        <4> QED BY <1>1, <4>1, <4>2 DEF Frame, Extent, UnknownSize
      <3> HIDE DEF q, o
      <3> QED BY <1>1, <2>1, <2>2, <3>1 DEF Drains
    <2> HIDE DEF Cut
    <2>5. (\E i \in 1..Len(o) : Cut(i)) \/ (\A i \in 1..Len(o) : ~Cut(i))
      OBVIOUS
    <2> QED BY <1>6, <1>9, <2>3, <2>4, <2>5
  <1> QED BY <1>1, <1>8, <1>9

\* What may come about once the input is over is that it ends where the bytes fed do.
LEMMA FinalIs ==
  ASSUME SkipsInv, skipped' = skipped, p'.fed = p.fed, finalized', pending' = "none",
         p'.pos \in Nat, p.pos <= p'.pos, NEW S, NEW eoi, Possible(S, eoi)'
  PROVE  Settles(S, eoi) /\ eoi = p.fed
  <1>1. Bound' \in Nat /\ p.pos <= Bound'
    BY DEF Bound
  <1> QED BY <1>1, SettlesBefore

\* Next finds the input over.
LEMMA NextRunsEOFReads ==
  ASSUME ReadStrong, NextRunsEOF
  PROVE  SkipsInv' /\ EndsInv' /\ ReadsInv'
  <1> USE DEF NextRunsEOF, Idle
  <1> DEFINE q == ResolvedParser
             o == ResolvedOpen
             r == FinalizeEOFResult(doc, q)
             cs == ClosedMasters(q)
             f == FinalizeEOF(q)
  <1>1. CursorInv /\ SkipsInv /\ EndsInv /\ err = "none" /\ ResolveResult = "ok" /\ ~eofRun
        /\ PeekResult(doc, q) = "NeedMoreData"
    BY DEF ReadStrong
  <1>2. ~EOFReported /\ Ready(q, o)
    BY <1>1, BeforeEOF
  <1>3. Healthy
    BY <1>1, <1>2 DEF Healthy
  <1>4. /\ q.fed = p.fed /\ q.pos \in Nat /\ p.pos <= q.pos /\ Quiet(q) /\ SameMasters(o, q.stack)
        /\ Stacks(o, q.stack) /\ o \in Seq(OpenMaster) /\ Len(q.stack) = Len(o)
    BY <1>1, <1>3, ResolvedIs DEF Stacks
  <1>5. events \in Seq(Event) /\ doc \in DOMAIN Documents /\ p.fed \in Nat
    BY <1>3, HealthyIs
  <1>6. /\ eofRun' = TRUE /\ pending' = "none" /\ UNCHANGED <<doc, finalized, skipped>> /\ finalized
        /\ IF r # "ok" THEN Fail(r) /\ p' = q
           ELSE IF cs # << >> THEN DequeueClose(f, o, cs)
           ELSE p' = f /\ closes' = << >> /\ events' = Append(events, Outcome("eof", "none"))
    BY DEF Settled
  <1>7. f.pos = q.pos /\ f.fed = q.fed
    BY DEF FinalizeEOF, At
  <1>8. /\ cs \in Seq([id : ElementID, end : Nat]) /\ ClosesAll(cs, o)
        /\ Len(cs) = Len(o) /\ \A i \in 1..Len(cs) : cs[i].end = q.pos
    <2>1. cs \in Seq([id : ElementID, end : Nat]) /\ ClosesAll(cs, o)
      BY <1>4, ClosedMastersClose
    <2>2. Len(cs) = Len(o)
      BY <2>1 DEF ClosesAll
    <2>3. \A i \in 1..Len(cs) : cs[i].end = q.pos
      BY <1>4, <2>2 DEF ClosedMasters
    <2> QED BY <2>1, <2>2, <2>3
  <1>9. ASSUME NEW S, NEW eoi, Settles(S, eoi), eoi = p.fed
        PROVE  /\ eoi \in Nat
               /\ r # "ok" => WholeInput(doc, S, eoi) = Append(events, Outcome("fail", r))
               /\ r = "ok" => Drains(doc, S, eoi, o, q.pos, events)
    BY <1>1, <1>3, <1>5, <1>9, EndOfInputReads
  <1>10. r \in {"ok"} \cup Incomplete
    BY <1>1, <1>4, <1>5, EndOfInputAnswers
  <1> HIDE DEF q, o, r, cs, f
  <1>11. CASE r # "ok"
    <2>1. p'.pos = q.pos /\ p'.fed = p.fed
      BY <1>4, <1>6, <1>11
    <2>2. SkipsInv'
      BY <1>1, <1>4, <1>6, <2>1, SkipsSettled
    <2>3. ASSUME NEW S, NEW eoi, Possible(S, eoi)'
          PROVE  WholeInput(doc, S, eoi) = Append(events, Outcome("fail", r))
      <3>1. Settles(S, eoi) /\ eoi = p.fed
        BY <1>1, <1>4, <1>6, <2>1, <2>3, FinalIs
      <3> QED BY <1>9, <1>11, <3>1
    <2>4. r \in StreamErrors /\ Fail(r)
      BY <1>6, <1>10, <1>11 DEF StreamErrors
    <2>5. EndsInv' /\ ReadsInv'
      BY <1>3, <1>6, <2>1, <2>3, <2>4, FailReads
    <2> QED BY <2>2, <2>5
  <1>12. CASE r = "ok" /\ cs # << >>
    <2> DEFINE e == EndNode(Top(o), Len(o) - 1, q.pos, "EndOfInput")
    <2>1. o # << >> /\ Top(o).id = Head(cs).id
      BY <1>4, <1>8, <1>12, DequeueKeepsClosing
    <2>2. Head(cs).end = q.pos /\ (\A i \in 1..Len(Tail(cs)) : Tail(cs)[i].end = q.pos)
      <3>1. Len(Tail(cs)) = Len(cs) - 1 /\ Head(cs) = cs[1] /\ 1 \in 1..Len(cs) /\ Len(cs) \in Nat
        BY <1>8, <1>12
      <3>2. \A i \in 1..Len(Tail(cs)) : Tail(cs)[i] = cs[i + 1] /\ i + 1 \in 1..Len(cs)
        BY <1>8, <1>12, <3>1
      <3> QED BY <1>8, <3>1, <3>2
    <2>3. DequeueClose(f, o, cs)
      BY <1>6, <1>12
    <2>4. /\ open' = Pop(o) /\ p' = f /\ closes' = Tail(cs) /\ err' = err
          /\ events' = Append(events, e)
      BY <2>1, <2>2, <2>3 DEF DequeueClose, IssueEnd
    <2>5. e \in Event /\ e.ev # "eof"
      <3>1. Top(o) \in OpenMaster /\ Len(o) - 1 \in Nat
        BY <1>4, <2>1, PopFacts
      <3> QED BY <1>4, <3>1, EndNodeType DEF EndNode, CloseReason
    <2> HIDE DEF e
    <2>6. ~EOFReported'
      BY <1>2, <1>5, <2>4, <2>5, AppendEvent DEF EOFReported
    <2>7. p'.pos = q.pos /\ p'.fed = p.fed
      BY <1>4, <1>7, <2>4
    <2>8. SkipsInv'
      BY <1>1, <1>4, <1>6, <2>7, SkipsSettled
    <2>9. ASSUME NEW S, NEW eoi, Possible(S, eoi)'
          PROVE  Drains(doc', S, eoi, open', p'.pos, events')
      <3>1. Settles(S, eoi) /\ eoi = p.fed
        BY <1>1, <1>4, <1>6, <2>7, <2>9, FinalIs
      <3>2. Drains(doc, S, eoi, o, q.pos, events) /\ eoi \in Nat
        BY <1>9, <1>12, <3>1
      <3>3. Drains(doc, S, eoi, Pop(o), q.pos, Append(events, e))
        BY <1>5, <2>1, <3>2, DrainsOn DEF e
      <3> QED BY <1>6, <2>4, <2>7, <3>3
    <2>10. EndsInv' /\ ReadsInv'
      BY <1>1, <1>5, <1>6, <2>2, <2>4, <2>6, <2>7, <2>9, DrainReads
    <2> QED BY <2>8, <2>10
  <1>13. CASE r = "ok" /\ cs = << >>
    <2>1. p' = f /\ closes' = << >> /\ events' = Append(events, Outcome("eof", "none"))
      BY <1>6, <1>13
    <2>2. o = << >>
      BY <1>4, <1>8, <1>13, EmptySeq
    <2>3. p'.pos = q.pos /\ p'.fed = p.fed
      BY <1>4, <1>7, <2>1
    <2>4. SkipsInv'
      BY <1>1, <1>4, <1>6, <2>3, SkipsSettled
    <2>5. ASSUME NEW S, NEW eoi, Possible(S, eoi)'
          PROVE  WholeInput(doc, S, eoi) = Append(events, Outcome("eof", "none"))
      <3>1. Settles(S, eoi) /\ eoi = p.fed
        BY <1>1, <1>4, <1>6, <2>3, <2>5, FinalIs
      <3>2. Drains(doc, S, eoi, o, q.pos, events) /\ eoi \in Nat
        BY <1>9, <1>13, <3>1
      <3> QED BY <1>5, <2>2, <3>2, DrainsOut
    <2>6. EndsInv' /\ ReadsInv'
      BY <1>3, <1>6, <2>1, <2>3, <2>5, EOFReads
    <2> QED BY <2>4, <2>6
  <1> QED BY <1>11, <1>12, <1>13

\* The bytes of the element pending are not there, and never will be.
LEMMA BlockedReads ==
  ASSUME ReadStrong, err = "none", ~eofRun, ~EOFReported, ResolveResult = "NeedMoreData",
         Fail("TruncatedPayload"), finalized',
         UNCHANGED <<doc, p, open, pending, decision, pendOpen, skipped>>
  PROVE  SkipsInv' /\ EndsInv' /\ ReadsInv'
  <1>1. CursorInv /\ SkipsInv /\ Healthy
    BY DEF ReadStrong, Healthy
  <1>2. ShortPayload(p)
    BY <1>1, Resolving
  <1>3. \/ pending = "leaf" /\ decision # "payloadDone"
        \/ pending = "master" /\ decision = "skipSubtree" /\ pendOpen.size # UnknownSize
    BY DEF ResolveResult, PayloadResult, EnterMasterResult, SkipPayloadResult
  <1>4. SkipsInv'
    BY <1>1 DEF SkipsInv, Bound
  <1>5. ASSUME NEW S, NEW eoi, Possible(S, eoi)'
        PROVE  WholeInput(doc, S, eoi) = Append(events, Outcome("fail", "TruncatedPayload"))
    <2>1. Possible(S, eoi) /\ eoi = p.fed
      BY <1>5 DEF Possible, Bound
    <2> DEFINE r == Going(events, p.pos)
               x == Stop(r, "TruncatedPayload")
               size == p.current.size
    <2>2. p.pos \in Nat /\ p.fed \in Nat /\ size \in Nat /\ p.pos + size > eoi
      <3>1. p \in ParserState /\ p.pos \in Nat /\ p.fed \in Nat
        BY <1>1, HealthyIs
      <3>2. size \in Extent
        BY <3>1 DEF ParserState, ElementCtx
      <3>3. size # UnknownSize /\ size > p.fed - p.pos
        BY <1>2 DEF ShortPayload, Available
      <3> HIDE DEF size
      <3> QED BY <2>1, <3>1, <3>2, <3>3 DEF Extent
    <2>3. pending = "master" => pendOpen.offset \in S /\ p.current.size # UnknownSize
      <3>1. ASSUME pending = "master"
            PROVE  pendOpen.offset \in skipped /\ pendOpen.offset \in Nat /\ pendOpen.offset < p.pos
                   /\ Bound = p.pos /\ p.current.size = pendOpen.size
        BY <1>1, <1>3, <3>1 DEF SkipsInv, Bound, CursorInv, PendingMatches
      <3> QED BY <1>3, <2>1, <2>2, <3>1 DEF Possible
    <2>4. Now(S, eoi) = PastPayload(r, size, eoi)
      BY <1>3, <2>3 DEF Now
    <2>5. PastPayload(r, size, eoi) = x
      BY <2>2 DEF PastPayload, Going, Standing
    <2>6. /\ eoi \in Nat /\ doc \in DOMAIN Documents /\ Stacks(open, p.stack)
          /\ Len(open) \in 0..Len(open)
      BY <1>1, <2>1, HealthyIs DEF Possible, CursorInv, StackMirror, SameMasters, Stacks
    <2>7. x \in Progress(eoi)
      BY <1>1, <2>1, <2>4, <2>5, NowIs
    <2>8. x.stop = "fail" /\ x.evs = Append(events, Outcome("fail", "TruncatedPayload"))
      BY DEF Stop, Standing, Going
    <2>9. Reaches(doc, S, eoi, open, p.stack, x)
      BY <1>1, <2>1, <2>4, <2>5, HealthyIs DEF Pursues
    <2>10. PlaceOf(open, p.stack, Len(open)) \in Place
      BY <2>6, PlaceOfIs
    <2> HIDE DEF x, r
    <2>11. Children(doc, S, eoi)[<<x, PlaceOf(open, p.stack, Len(open))>>] = x
      BY <2>6, <2>7, <2>8, <2>10, StoppedReads
    <2> QED BY <2>6, <2>7, <2>8, <2>9, <2>11, ReachesFail
  <1>6. EndsInv' /\ ReadsInv'
    BY <1>1, <1>5, FailReads DEF StreamErrors, Incomplete
  <1> QED BY <1>4, <1>6

\* Finalize settles the decision, and finds the input over if nothing is left to report.
LEMMA FinalizeReads ==
  ASSUME ReadStrong, Finalize
  PROVE  SkipsInv' /\ EndsInv' /\ ReadsInv'
  <1>1. /\ err = "none" /\ ~finalized /\ finalized' = TRUE
        /\ UNCHANGED <<doc, skipped>>
    BY DEF Finalize
  <1>2. CursorInv /\ SkipsInv /\ EndsInv
    BY DEF ReadStrong
  <1>3. ~eofRun /\ ~EOFReported /\ Healthy
    BY <1>1, <1>2 DEF CursorInv, EOFRunDrained, CleanEOF, Healthy
  <1>4. CASE ResolveResult \notin {"ok", "NeedMoreData"}
    <2>1. /\ Fail(ResolveResult)
          /\ UNCHANGED <<p, open, pending, decision, pendOpen, closes, eofRun>>
      BY <1>4 DEF Finalize
    <2> QED BY <1>1, <1>4, <2>1, ResolveFailsReads
  <1>5. CASE ResolveResult = "NeedMoreData"
    <2>1. FinalizeEOFResult(doc, p) = "TruncatedPayload"
      BY <1>1, <1>2, <1>5, Resolving DEF FinalizeEOFResult
    <2>2. p' = p /\ UNCHANGED <<open, pending, decision, pendOpen>> /\ Fail("TruncatedPayload")
      BY <1>5, <2>1 DEF Finalize
    <2> QED BY <1>1, <1>3, <1>5, <2>2, BlockedReads
  <1>6. CASE ResolveResult = "ok"
    <2> DEFINE q    == ResolvedParser
               o    == ResolvedOpen
               peek == PeekResult(doc, q)
               r    == FinalizeEOFResult(doc, q)
               cs   == ClosedMasters(q)
               f    == FinalizeEOF(q)
    <2>1. /\ q.fed = p.fed /\ q.pos \in Nat /\ p.pos <= q.pos /\ Quiet(q) /\ SameMasters(o, q.stack)
          /\ o \in Seq(OpenMaster) /\ Len(q.stack) = Len(o) /\ Stacks(o, q.stack)
      BY <1>3, <1>6, ResolvedIs DEF Stacks
    <2>2. events \in Seq(Event) /\ doc \in DOMAIN Documents /\ p.fed \in Nat
      BY <1>3, HealthyIs
    <2>3. peek \in {"ok", "EndMaster", "NeedMoreData"} \cup Malformed
      BY <2>1, <2>2, PeekAnswers
    <2>4. open' = o /\ Settled /\ pending' = "none"
      BY <1>6 DEF Finalize, Settled
    <2>5. CASE peek \in {"ok", "EndMaster"}
      <3>1. p' = q /\ UNCHANGED <<closes, eofRun, err, events>>
        BY <1>6, <2>5 DEF Finalize
      <3> QED BY <1>1, <1>3, <1>6, <2>4, <3>1, RestReads
    <2>6. CASE peek \in Malformed
      <3>1. p' = q /\ Fail(peek)
        BY <1>6, <2>6 DEF Finalize, Malformed
      <3>2. peek \in StreamErrors
        BY <2>6 DEF StreamErrors
      <3>3. \A S, eoi : Settles(S, eoi) =>
              Children(doc, S, eoi)[<<Going(events, q.pos), PlaceOf(o, q.stack, Len(o))>>]
                = Stop(Going(events, q.pos), peek)
        BY <1>3, <1>6, <2>6, ResolvedPeek DEF PeekMeans
      <3> HIDE DEF peek, q, o, r, cs, f
      <3> QED BY ONLY <1>1, <1>3, <1>6, <2>4, <3>1, <3>2, <3>3, StopReads DEF q, o
    <2>7. CASE peek = "NeedMoreData"
      <3>1. /\ eofRun' = TRUE
            /\ IF r # "ok" THEN Fail(r) /\ p' = q
               ELSE p' = f /\ closes' = cs /\ UNCHANGED <<err, events>>
        BY <1>6, <2>7 DEF Finalize
      <3>2. r \in {"ok"} \cup Incomplete
        BY <2>1, <2>2, <2>7, EndOfInputAnswers
      <3>3. f.pos = q.pos /\ f.fed = q.fed
        BY DEF FinalizeEOF, At
      <3>4. ASSUME NEW S, NEW eoi, Settles(S, eoi), eoi = p.fed
            PROVE  /\ r # "ok" => WholeInput(doc, S, eoi) = Append(events, Outcome("fail", r))
                   /\ r = "ok" => Drains(doc, S, eoi, o, q.pos, events)
        BY <1>3, <1>6, <2>7, <3>4, EndOfInputReads
      <3>5. \A i \in 1..Len(cs) : cs[i].end = q.pos
        <4>1. Len(cs) = Len(o)
          BY <2>1, ClosedMastersClose DEF ClosesAll
        <4> QED BY <2>1, <4>1 DEF ClosedMasters
      <3> HIDE DEF q, o, r, cs, f
      <3>6. p'.pos = q.pos /\ p'.fed = p.fed
        BY <2>1, <3>1, <3>3
      <3>7. SkipsInv'
        BY <1>1, <1>2, <2>1, <2>4, <3>6, SkipsSettled
      <3>8. ASSUME NEW S, NEW eoi, Possible(S, eoi)'
            PROVE  Settles(S, eoi) /\ eoi = p.fed
        BY <1>1, <1>2, <2>1, <2>4, <3>6, <3>8, FinalIs
      <3>9. CASE r # "ok"
        <4>1. r \in StreamErrors /\ Fail(r)
          BY <3>1, <3>2, <3>9 DEF StreamErrors
        <4>2. \A S, eoi : Possible(S, eoi)' =>
                WholeInput(doc, S, eoi) = Append(events, Outcome("fail", r))
          BY <3>4, <3>8, <3>9
        <4>3. EndsInv' /\ ReadsInv'
          BY <1>1, <1>3, <3>6, <4>1, <4>2, FailReads
        <4> QED BY <3>7, <4>3
      <3>10. CASE r = "ok"
        <4>1. p' = f /\ closes' = cs /\ UNCHANGED <<err, events>>
          BY <3>1, <3>10
        <4>2. ~EOFReported'
          BY <1>3, <4>1 DEF EOFReported
        <4>3. \A S, eoi : Possible(S, eoi)' => Drains(doc', S, eoi, open', p'.pos, events')
          BY <1>1, <2>4, <3>4, <3>6, <3>8, <3>10, <4>1
        <4>4. EndsInv' /\ ReadsInv'
          BY <1>1, <1>2, <2>2, <3>1, <3>5, <3>6, <4>1, <4>2, <4>3, DrainReads
        <4> QED BY <3>7, <4>4
      <3> QED BY <3>9, <3>10
    <2> QED BY <2>3, <2>5, <2>6, <2>7
  <1> QED BY <1>2, <1>1, <1>4, <1>5, <1>6

\* Before anything is fed the reading starts where the recursive descent does.
LEMMA InitReads == Init => ReadStrong
  <1> SUFFICES ASSUME Init PROVE ReadStrong
    OBVIOUS
  <1>1. CursorInv
    BY InitInv
  <1>2. /\ doc \in DOMAIN Documents /\ Documents[doc].start \in Nat /\ Documents[doc].len \in Nat
        /\ p.pos = Documents[doc].start /\ p.fed = p.pos /\ p.stack = << >>
    BY Assumption DEF DocumentsAssumption, Init, New
  <1>3. SkipsInv
    BY <1>2 DEF Init, SkipsInv
  <1>4. ~EOFReported /\ Len(events) = 0
    BY EmptySeq DEF Init, EOFReported
  <1>5. EndsInv
    BY <1>2, <1>4 DEF Init, EndsInv, InputEnd
  <1>6. ASSUME NEW S, NEW eoi, Possible(S, eoi)
        PROVE  Pursues(S, eoi)
    <2> DEFINE r == Going(events, p.pos)
               list == Children(doc, S, eoi)
               lev == [i \in {0} |-> list[<<r, NoPlace>>]]
    <2>1. Now(S, eoi) = r
      BY DEF Now, Init
    <2>2. Len(open) = 0 /\ PlaceOf(open, p.stack, 0) = NoPlace
      BY EmptySeq DEF Init, PlaceOf
    <2>3. lev[0] = list[<<r, NoPlace>>]
      OBVIOUS
    <2>4. r = Going(<< >>, Documents[doc].start)
      BY <1>2 DEF Init
    <2>5. WholeInput(doc, S, eoi) = Said(lev[0])
      BY <2>3, <2>4 DEF WholeInput, ReadFrom
    <2> HIDE DEF lev, r
    <2>6. NestedReading(list, lev, open, p.stack, r)
      <3>1. 0..(Len(open) - 1) = {}
        BY <2>2
      <3> QED BY <2>2, <2>3, <3>1 DEF NestedReading
    <2>7. Reaches(doc, S, eoi, open, p.stack, r)
      BY <2>5, <2>6 DEF Reaches
    <2> QED BY <2>1, <2>7 DEF Pursues, Init
  <1>7. ReadsInv
    BY <1>4, <1>6 DEF ReadsInv, Init
  <1> QED BY <1>1, <1>3, <1>5, <1>7 DEF ReadStrong

\* Whatever is called, the events keep leading to all that the input says.
LEMMA NextReads == ReadStrong /\ [Next]_vars => ReadStrong'
  <1> SUFFICES ASSUME ReadStrong, [Next]_vars PROVE ReadStrong'
    OBVIOUS
  <1>0. CursorInv'
    BY NextInv DEF ReadStrong
  <1>1. CASE Descend \/ SkipSubtree \/ SkipLeaf
    BY <1>0, <1>1, DecideReads DEF ReadStrong
  <1>2. CASE Payload
    BY <1>0, <1>2, PayloadReads DEF ReadStrong
  <1>3. CASE NextAgain \/ NextResolveBlocked
    BY <1>0, <1>3, NextRepeatsReads DEF ReadStrong
  <1>4. CASE NextResolveFails
    <2>1. finalized => finalized'
      BY <1>4 DEF NextResolveFails, Idle
    <2>2. SkipsInv' /\ EndsInv' /\ ReadsInv'
      BY <1>4, <2>1, ResolveFailsReads DEF NextResolveFails, Idle
    <2> QED BY <1>0, <2>2 DEF ReadStrong
  <1>5. CASE NextDequeue
    BY <1>0, <1>5, NextDequeueReads DEF ReadStrong
  <1>6. CASE NextNeedsMore
    BY <1>0, <1>6, NextNeedsMoreReads DEF ReadStrong
  <1>7. CASE NextRunsEOF
    BY <1>0, <1>7, NextRunsEOFReads DEF ReadStrong
  <1>8. CASE NextEOF
    BY <1>0, <1>8, NextEOFReads DEF ReadStrong
  <1>9. CASE NextEnd
    BY <1>0, <1>9, NextEndReads DEF ReadStrong
  <1>10. CASE NextHeader
    BY <1>0, <1>10, NextHeaderReads DEF ReadStrong
  <1>11. CASE NextMalformed
    BY <1>0, <1>11, NextMalformedReads DEF ReadStrong
  <1>12. CASE \E n \in 1..Documents[doc].len : FeedChunk(n)
    <2>1. PICK n \in 1..Documents[doc].len : FeedChunk(n)
      BY <1>12
    <2>2. n \in Nat
      <3>1. Documents[doc].len \in Nat
        BY Assumption DEF DocumentsAssumption, ReadStrong, CursorInv, TypeOK
      <3> QED BY <3>1
    <2>3. SkipsInv' /\ EndsInv' /\ ReadsInv'
      BY <2>1, <2>2, FeedReads
    <2> QED BY <1>0, <2>3 DEF ReadStrong
  <1>13. CASE FeedAfterFinalize
    BY <1>0, <1>13, FeedAfterFinalizeReads DEF ReadStrong
  <1>14. CASE Finalize
    BY <1>0, <1>14, FinalizeReads DEF ReadStrong
  <1>15. CASE UNCHANGED vars
    <2>1. UNCHANGED <<doc, p, open, pending, decision, pendOpen, closes, finalized, eofRun, err,
                      events, skipped>>
      BY <1>15 DEF vars
    <2>2. SkipsInv /\ EndsInv /\ ReadsInv
      BY DEF ReadStrong
    <2>3. \A S, eoi : Possible(S, eoi)' => Possible(S, eoi)
      BY <2>1 DEF Possible, Bound
    <2>4. ReadsInv'
      BY <2>1, <2>2, <2>3, SameReads
    <2>5. SkipsInv' /\ EndsInv'
      BY <2>1, <2>2 DEF SkipsInv, Bound, EndsInv, EOFReported, Ended, InputEnd
    <2> QED BY <1>0, <2>4, <2>5 DEF ReadStrong
  <1> QED BY <1>1, <1>2, <1>3, <1>4, <1>5, <1>6, <1>7, <1>8, <1>9, <1>10, <1>11, <1>12,
             <1>13, <1>14, <1>15 DEF Next, Consume, CursorNext

\* What leads to all that the input says is the beginning of it.
LEMMA ReadStrongSplits == ReadStrong => SplitInvariance
  <1> SUFFICES ASSUME ReadStrong PROVE SplitInvariance
    OBVIOUS
  <1> DEFINE eoi == IF finalized THEN p.fed ELSE InputEnd
  <1>1. p.fed \in Nat /\ p.fed <= InputEnd /\ InputEnd \in Nat /\ events \in Seq(Event)
    <2>1. doc \in DOMAIN Documents /\ p.fed \in Nat /\ p.fed <= InputEnd /\ events \in Seq(Event)
      BY DEF ReadStrong, EndsInv, CursorInv, TypeOK, ParserState
    <2>2. InputEnd \in Nat
      BY <2>1, Assumption DEF DocumentsAssumption, InputEnd
    <2> QED BY <2>1, <2>2
  <1>2. Possible(skipped, eoi)
    BY <1>1 DEF Possible
  <1> HIDE DEF eoi
  <1>3. CASE err = "none" /\ ~EOFReported
    <2>1. Extends(events, WholeInput(doc, skipped, eoi)) /\ WholeInput(doc, skipped, eoi) \in Seq(Event)
      BY <1>2, <1>3, PursuesPrefix DEF Healthy
    <2> QED BY <1>1, <2>1, EventsArePrefix DEF SplitInvariance, eoi
  <1>4. CASE ~(err = "none" /\ ~EOFReported)
    <2>1. IsPrefix(events, WholeInput(doc, skipped, eoi))
      BY <1>2, <1>4 DEF ReadStrong, ReadsInv, HasTold
    <2> QED BY <2>1 DEF SplitInvariance, eoi
  <1> QED BY <1>3, <1>4

\* What the consumer is told is what the recursive descent over the whole input says,
\* from its beginning, in its order, with its extents and its outcome: however the
\* input is cut into chunks, whenever the consumer decides and whatever it skips
\* (cursor.go, Next: "split-invariant"; Finalize).
THEOREM InputIsReadAsAWhole == Spec => []SplitInvariance
  BY InitReads, NextReads, ReadStrongSplits, PTL DEF Spec

=============================================================================
