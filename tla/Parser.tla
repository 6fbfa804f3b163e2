------------------------------- MODULE Parser -------------------------------
(***************************************************************************)
(* The low-level pull engine of parser/parser.go.                          *)
(*                                                                         *)
(* A parser is a value p = [fed, pos, stack, current]: how far the input   *)
(* has been fed and consumed (absolute offsets), the masters entered and   *)
(* not left, and the element whose header was consumed and whose payload   *)
(* was not.  An operation Op is two operators: OpResult(p), what the call  *)
(* returns, and Op(p), the parser it leaves when that result is "ok".      *)
(*                                                                         *)
(* The bytes themselves are abstracted to a document: its length and, for  *)
(* each offset where a header is encoded, what parseElementID and          *)
(* parseSize would decode there.                                           *)
(***************************************************************************)
EXTENDS Integers, Sequences

CONSTANTS
  ElementID,   \* the element IDs that occur in the documents
  KindOf,      \* the KindClassifier: what it answers for each ID
  Documents    \* the inputs, each a record [start, len, at]

Kind == {"master", "leaf", "endmaster"}

UnknownSize == -1

\* A decoded header.  idLen = 0 (sizeLen = 0) stands for an ID (size) whose
\* first byte announces a VINT longer than the maximum.
Header == [id : ElementID, idLen : 0..4, sizeLen : 0..8,
           size : Nat \cup {UnknownSize}]

DocumentsAssumption ==
  /\ KindOf \in [ElementID -> Kind]
  /\ \A d \in DOMAIN Documents :
       /\ Documents[d].start \in Nat
       /\ Documents[d].len \in Nat
       /\ \A o \in DOMAIN Documents[d].at : Documents[d].at[o] \in Header

ASSUME Assumption == DocumentsAssumption

-----------------------------------------------------------------------------

\* The outcomes of an operation that are not "ok": NeedMoreData, a stream that
\* cannot be read, input that ended too early, and the misuse of the engine by
\* its caller.
Malformed  == {"VINTLength", "UnknownSizeLeaf", "ElementOverflow"}
Incomplete == {"TruncatedHeader", "TruncatedPayload", "UnfinishedMaster"}
Misuse     == {"NoCurrent", "CurrentPending", "NotMaster", "PayloadOfMaster",
               "UnknownSizePayload", "StackEmpty", "PrematureClose"}

NoElement == [id |-> "none", kind |-> "none", size |-> 0, offset |-> 0]

New(d) == [fed |-> Documents[d].start, pos |-> Documents[d].start,
           stack |-> << >>, current |-> NoElement]

Available(p) == p.fed - p.pos

HasCurrent(p) == p.current.kind # "none"

Top(s) == s[Len(s)]

Pop(s) == SubSeq(s, 1, Len(s) - 1)

\* p with its position, its stack and its current element replaced.
At(p, pos, stack, current) ==
  [fed |-> p.fed, pos |-> pos, stack |-> stack, current |-> current]

Feed(p, n) == [fed |-> p.fed + n, pos |-> p.pos, stack |-> p.stack, current |-> p.current]

-----------------------------------------------------------------------------
(* Peek: the end of the innermost master, or the header at pos.            *)

\* What the header VINTs at offset o decode to; bytes at which no header was
\* encoded read as a VINT of illegal length.
HeaderAt(d, o) ==
  IF o \in DOMAIN Documents[d].at
  THEN Documents[d].at[o]
  ELSE [id |-> CHOOSE id \in ElementID : TRUE, idLen |-> 0, sizeLen |-> 0, size |-> 0]

HeaderLen(h) == h.idLen + h.sizeLen

\* parseElementID, then parseSize, on the bytes available.
VINTResult(h, avail) ==
  IF avail < 1 THEN "NeedMoreData"
  ELSE IF h.idLen = 0 THEN "VINTLength"
  ELSE IF avail <= h.idLen THEN "NeedMoreData"
  ELSE IF h.sizeLen = 0 THEN "VINTLength"
  ELSE IF avail < HeaderLen(h) THEN "NeedMoreData"
  ELSE "ok"

\* A known-size child may not run past its parent, if the parent's size is known.
ChildOverflows(p, h) ==
  /\ h.size # UnknownSize
  /\ p.stack # << >>
  /\ Top(p.stack).end # UnknownSize
  /\ p.pos + HeaderLen(h) + h.size > Top(p.stack).end

\* Mutant: a master's end is noticed one byte late.
AtMasterEndLate(p) ==
  /\ p.stack # << >>
  /\ Top(p.stack).end # UnknownSize
  /\ p.pos > Top(p.stack).end

\* The innermost master has a declared end and the parser is there.
AtMasterEnd(p) ==
  /\ p.stack # << >>
  /\ Top(p.stack).end # UnknownSize
  /\ p.pos >= Top(p.stack).end

\* What Peek makes of the header h.
HeaderOutcome(h, p) ==
  LET v == VINTResult(h, Available(p))
  IN IF v # "ok" THEN v
     ELSE IF h.size = UnknownSize /\ KindOf[h.id] # "master" THEN "UnknownSizeLeaf"
     ELSE IF ChildOverflows(p, h) THEN "ElementOverflow"
     ELSE "ok"

HeaderResult(d, p) == HeaderOutcome(HeaderAt(d, p.pos), p)

PeekResult(d, p) ==
  IF AtMasterEnd(p) THEN "EndMaster"
  ELSE IF HasCurrent(p) THEN "CurrentPending"
  ELSE HeaderResult(d, p)

-----------------------------------------------------------------------------
(* The operations that move the parser.                                    *)

ConsumeHeader(d, p) ==
  LET h == HeaderAt(d, p.pos)
  IN At(p, p.pos + HeaderLen(h), p.stack,
        [id |-> h.id, kind |-> KindOf[h.id], size |-> h.size, offset |-> p.pos])

EnterMasterResult(p) ==
  IF ~HasCurrent(p) THEN "NoCurrent"
  ELSE IF p.current.kind # "master" THEN "NotMaster"
  ELSE "ok"

EnterMaster(p) ==
  LET c == p.current
      end == IF c.size = UnknownSize THEN UnknownSize ELSE p.pos + c.size
  IN At(p, p.pos, Append(p.stack, [id |-> c.id, start |-> c.offset, end |-> end]), NoElement)

LeaveMasterResult(p) ==
  IF p.stack = << >> THEN "StackEmpty"
  ELSE IF Top(p.stack).end = UnknownSize \/ p.pos < Top(p.stack).end THEN "PrematureClose"
  ELSE "ok"

CloseMasterResult(p) ==
  IF p.stack = << >> THEN "StackEmpty"
  ELSE IF Top(p.stack).end # UnknownSize /\ p.pos < Top(p.stack).end THEN "PrematureClose"
  ELSE "ok"

\* LeaveMaster and CloseMaster differ in when they are allowed, not in effect.
PopMaster(p) == At(p, p.pos, Pop(p.stack), p.current)

\* The part SkipPayload, SkipCurrentPayload and consumePayload share: they step
\* over a payload that has a declared size and has arrived in full.
PayloadResult(p) ==
  IF ~HasCurrent(p) THEN "NoCurrent"
  ELSE IF p.current.size = UnknownSize THEN "UnknownSizePayload"
  ELSE IF Available(p) < p.current.size THEN "NeedMoreData"
  ELSE "ok"

\* SkipPayload alone refuses a master.
SkipPayloadResult(p) ==
  IF HasCurrent(p) /\ p.current.kind = "master" THEN "PayloadOfMaster"
  ELSE PayloadResult(p)

StepOver(p) == At(p, p.pos + p.current.size, p.stack, NoElement)

-----------------------------------------------------------------------------
(* FinalizeEOF: what the end of the input makes of the parser's state.  A    *)
(* call that fails has popped the masters that ended; its caller is failed  *)
(* by then and never looks, so that is left out.                            *)

ShortPayload(p) ==
  HasCurrent(p) /\ p.current.size # UnknownSize /\ p.current.size > Available(p)

EndReached(p, f) == f.end # UnknownSize /\ p.pos >= f.end

\* The first loop closes the innermost masters whose declared end was reached.
AfterReachedEnds(p) ==
  LET Kept(k) == /\ \A i \in (k + 1)..Len(p.stack) : EndReached(p, p.stack[i])
                 /\ k = 0 \/ ~EndReached(p, p.stack[k])
      keep == CHOOSE k \in 0..Len(p.stack) : Kept(k)
  IN At(p, p.pos, SubSeq(p.stack, 1, keep), p.current)

LeftoverResult(d, p) ==
  IF ~HasCurrent(p) /\ Available(p) > 0
  THEN LET r == PeekResult(d, AfterReachedEnds(p))
       IN IF r = "NeedMoreData" THEN "TruncatedHeader"
          ELSE IF r = "EndMaster" THEN "ok" ELSE r
  ELSE "ok"

FinalizeEOFResult(d, p) ==
  IF ShortPayload(p) THEN "TruncatedPayload"
  ELSE IF LeftoverResult(d, p) # "ok" THEN LeftoverResult(d, p)
  ELSE IF \E i \in 1..Len(p.stack) :
            p.stack[i].end # UnknownSize /\ p.pos < p.stack[i].end
       THEN "UnfinishedMaster"
  ELSE "ok"

\* The masters it reports closed, innermost first, all at the current offset.
ClosedMasters(p) ==
  [i \in 1..Len(p.stack) |-> [id |-> p.stack[Len(p.stack) + 1 - i].id, end |-> p.pos]]

FinalizeEOF(p) == At(p, p.pos, << >>, p.current)

=============================================================================
