------------------------ MODULE FragmentReader_proofs ------------------------
(***************************************************************************)
(* What the assembler keeps, for every document, option set and chunking:  *)
(* where the fragment that waits for its metadata is, and how the open      *)
(* masters of the assembler and of its cursor agree.  The cursor's own      *)
(* invariant survives the recoveries that replace it.  On these, the Reader  *)
(* loses nothing between the assembler and its consumer, and implements the  *)
(* iteration of module Delivery: for every document, split into reads,       *)
(* recovery and failure.                                                   *)
(***************************************************************************)
EXTENDS FragmentReader, Cursor_proofs

-----------------------------------------------------------------------------
(* The fragment that waits.                                                *)

\* A recovery starts with nothing held: the reset of the Segment that ends it
\* cannot leave a fragment without its Segment.
HeldInv ==
  /\ HeldBeforeOpen
  /\ cluster # NoNode => segment # NoNode
  /\ resyncing => waiting = NoFragment /\ call \in {"idle", "scan"}
  /\ call = "scan" => resyncing

heldVars == <<waiting, cluster, segment, resyncing, call>>

\* What settle does with the fragment it is given: keep it or let it go.
LEMMA SettleKeepsOrLetsGo ==
  ASSUME NEW id, NEW r, NEW f, NEW tree, Settle(id, r, f, tree)
  PROVE  waiting' \in {f, NoFragment}
  BY DEF Settle, HandOver

\* An assembler begins with nothing held, open or being recovered from.
LEMMA HeldInit == AsmInit => HeldInv
  BY DEF AsmInit, HeldInv, HeldBeforeOpen

\* The steps of the drain that leave what is held, and where, alone.
LEMMA DrainKeeps ==
  ASSUME HeldInv,
         Pull \/ DeclineMaster \/ EnterRetained \/ DropLeaf \/ AskBlock \/ AskLeaf
         \/ AwaitPayload \/ TakeBlock \/ EndMismatch
  PROVE  heldVars' = heldVars
  <1>1. CASE Pull          BY <1>1 DEF Pull, heldVars, content, recovery
  <1>2. CASE DeclineMaster BY <1>2 DEF DeclineMaster, Acted, heldVars, content, recovery
  <1>3. CASE EnterRetained BY <1>3 DEF EnterRetained, Acted, heldVars, content, recovery
  <1>4. CASE DropLeaf      BY <1>4 DEF DropLeaf, Acted, heldVars, content, recovery
  <1>5. CASE AskBlock      BY <1>5 DEF AskBlock, Acted, heldVars, content, recovery
  <1>6. CASE AskLeaf       BY <1>6 DEF AskLeaf, Acted, heldVars, content, recovery
  <1>7. CASE AwaitPayload  BY <1>7 DEF AwaitPayload, heldVars, content, recovery
  <1>8. CASE TakeBlock     BY <1>8 DEF TakeBlock, heldVars, content, recovery
  <1>9. CASE EndMismatch   BY <1>9 DEF EndMismatch, heldVars, content, recovery
  <1> QED BY <1>1, <1>2, <1>3, <1>4, <1>5, <1>6, <1>7, <1>8, <1>9

\* A step that leaves the fragment, the Cluster and the recovery alone keeps the
\* invariant.
LEMMA KeptInv == ASSUME HeldInv, heldVars' = heldVars PROVE HeldInv'
  BY DEF HeldInv, HeldBeforeOpen, heldVars

\* Every step of drain keeps the invariant: a Cluster begins only after what waited
\* was handed over, and a fragment waits only when its Cluster has ended.
LEMMA DrainHolds ==
  ASSUME HeldInv, Drain
  PROVE  HeldInv'
  <1>1. CASE EnterSegment
    <2>1. segment = NoNode /\ cluster = NoNode /\ waiting = NoFragment
      BY <1>1 DEF EnterSegment, HeldInv, HeldBeforeOpen
    <2>2. cluster' = cluster /\ waiting' = waiting /\ resyncing' = resyncing /\ call' = call
      BY <1>1 DEF EnterSegment, Acted, recovery
    <2> QED BY <2>1, <2>2 DEF HeldInv, HeldBeforeOpen
  <1>2. CASE EnterCluster
    <2>1. segment # NoNode /\ segment' = segment /\ waiting' = NoFragment
          /\ resyncing' = resyncing /\ call' = call
      BY <1>2 DEF EnterCluster, Acted, recovery, Release, HandOver
    <2> QED BY <2>1 DEF HeldInv, HeldBeforeOpen
  <1>3. CASE ElideLeaf \/ TakeLeaf \/ EndOther
    <2>1. waiting' \in {waiting, NoFragment}
      BY <1>3, SettleKeepsOrLetsGo DEF ElideLeaf, TakeLeaf, EndOther
    <2>2. segment' = segment /\ cluster' = cluster /\ resyncing' = resyncing /\ call' = call
      BY <1>3 DEF ElideLeaf, TakeLeaf, EndOther, Acted, recovery
    <2> QED BY <2>1, <2>2 DEF HeldInv, HeldBeforeOpen
  <1>4. CASE EndCluster /\ Acting("end")
    <2>1. call \in {"feed", "resume", "finalize"} /\ cluster # NoNode
      BY <1>4 DEF EndCluster, Acting, Draining
    <2>2. segment # NoNode
      BY <2>1 DEF HeldInv
    <2>3. cluster' = NoNode /\ segment' = segment /\ resyncing' = resyncing /\ call' = call
      BY <1>4 DEF EndCluster, Acted, recovery
    <2>4. ~resyncing
      BY <2>1 DEF HeldInv
    <2> QED BY <2>1, <2>2, <2>3, <2>4 DEF HeldInv, HeldBeforeOpen
  <1>5. CASE EndSegment
    <2>1. waiting' = NoFragment /\ cluster' = NoNode /\ resyncing' = resyncing /\ call' = call
      BY <1>5 DEF EndSegment, Acted, recovery, Release, HandOver
    <2> QED BY <2>1 DEF HeldInv, HeldBeforeOpen
  <1> QED BY <1>1, <1>2, <1>3, <1>4, <1>5, DrainKeeps, KeptInv DEF Drain, End

-----------------------------------------------------------------------------

\* What changes hands between calls.
LEMMA CallsHold ==
  ASSUME HeldInv,
         ScanFinds \/ ScanStarves \/ CallAfterFailure \/ CallAfterFinalize
         \/ FeedReturns \/ FinalizeUnrecovered \/ FinalizeReturns
  PROVE  HeldInv'
  <1>1. CASE ScanFinds
    <2>1. waiting' = waiting /\ waiting = NoFragment
      BY <1>1 DEF ScanFinds, HeldInv
    <2>2. cluster' = NoNode /\ resyncing' = FALSE /\ call' = "resume"
      BY <1>1 DEF ScanFinds, ResetSegment
    <2> QED BY <2>1, <2>2 DEF HeldInv, HeldBeforeOpen
  <1>2. CASE ScanStarves
    BY <1>2 DEF ScanStarves, Return, recovery, HeldInv, HeldBeforeOpen
  <1>3. CASE CallAfterFailure
    BY <1>3 DEF CallAfterFailure, Return, recovery, HeldInv, HeldBeforeOpen
  <1>4. CASE CallAfterFinalize
    BY <1>4 DEF CallAfterFinalize, Return, recovery, HeldInv, HeldBeforeOpen
  <1>5. CASE FeedReturns
    BY <1>5 DEF FeedReturns, Return, recovery, content, HeldInv, HeldBeforeOpen
  <1>6. CASE FinalizeUnrecovered
    BY <1>6 DEF FinalizeUnrecovered, Return, HeldInv, HeldBeforeOpen
  <1>7. CASE FinalizeReturns
    BY <1>7 DEF FinalizeReturns, Release, HandOver, Return, recovery, HeldInv, HeldBeforeOpen
  <1> QED BY <1>1, <1>2, <1>3, <1>4, <1>5, <1>6, <1>7

\* The bytes of a Feed touch no fragment.
LEMMA FeedHolds ==
  ASSUME HeldInv, NEW n, AsmFeed(n)
  PROVE  HeldInv'
  BY DEF AsmFeed, recovery, HeldInv, HeldBeforeOpen

\* Finalize hands over the fragment that waits, or drops an unfinished one.
LEMMA FinalizeHolds ==
  ASSUME HeldInv, AsmFinalize \/ FinalizeFails
  PROVE  HeldInv'
  <1>1. CASE AsmFinalize
    BY <1>1 DEF AsmFinalize, Accepting, recovery, HeldInv, HeldBeforeOpen
  <1>2. CASE FinalizeFails
    <2>1. waiting' = NoFragment /\ resyncing' = resyncing /\ call' = "idle"
      BY <1>2 DEF FinalizeFails, Return, recovery
    <2>2. cluster' = NoNode \/ (cluster' = cluster /\ segment' = segment)
      BY <1>2 DEF FinalizeFails, ResetSegment
    <2> QED BY <2>1, <2>2 DEF HeldInv, HeldBeforeOpen
  <1> QED BY <1>1, <1>2

\* A structural failure in Feed salvages the fragment that waits before it begins a
\* recovery, or latches.
LEMMA FailuresHold ==
  ASSUME HeldInv, FeedRecovers \/ FeedFails
  PROVE  HeldInv'
  <1>1. CASE FeedRecovers
    <2>1. waiting' = NoFragment /\ cluster' = cluster /\ segment' = segment
          /\ resyncing' = TRUE /\ call' = "scan"
      BY <1>1 DEF FeedRecovers, RecordFailure, Release, HandOver
    <2> QED BY <2>1 DEF HeldInv, HeldBeforeOpen
  <1>2. CASE FeedFails
    <2>1. waiting' \in {waiting, NoFragment}
      BY <1>2 DEF FeedFails, Release, HandOver
    <2>2. cluster' = cluster /\ segment' = segment /\ resyncing' = resyncing /\ call' = "idle"
      BY <1>2 DEF FeedFails, Return, recovery
    <2> QED BY <2>1, <2>2 DEF HeldInv, HeldBeforeOpen
  <1> QED BY <1>1, <1>2

\* The invariant is inductive.
LEMMA HeldStep == HeldInv /\ [AsmNext]_asmVars => HeldInv'
  <1> SUFFICES ASSUME HeldInv, [AsmNext]_asmVars PROVE HeldInv'
    OBVIOUS
  <1>1. CASE AsmNext
    BY <1>1, DrainHolds, CallsHold, FeedHolds, FinalizeHolds, FailuresHold DEF AsmNext, Running
  <1>2. CASE UNCHANGED asmVars
    BY <1>2, KeptInv DEF asmVars, heldVars, content, recovery, control
  <1> QED BY <1>1, <1>2

\* No fragment waits while a Cluster is being read.  A block that will not decode
\* can only be met inside a Cluster, so the failure it causes finds nothing held
\* back: resume (assembler.go:728-732), which reports it without releasing what is
\* held, loses nothing.
THEOREM NothingHeldInACluster == AsmSpec => []HeldBeforeOpen
  <1>1. HeldInv => HeldBeforeOpen
    BY DEF HeldInv
  <1> QED BY <1>1, HeldInit, HeldStep, PTL DEF AsmSpec

-----------------------------------------------------------------------------
(* The open masters.  Assembler and cursor each keep a list.  The cursor's   *)
(* moves when Next resolves a decision or reports an end, the assembler's   *)
(* when it acts on the node reported, so that the two agree only through     *)
(* what is in hand between the two: Entered puts it back.                  *)

\* The master whose end was reported, as it was opened.
EndedMaster == [id |-> Node.id, offset |-> Node.offset, size |-> Node.size]

EndInHand == fresh /\ Node.ev = "end"

\* The masters entered, as the assembler counts them: with the one whose end it
\* has yet to look at, and the one the next Next will open.
Entered ==
  IF EndInHand THEN Append(open, EndedMaster)
  ELSE IF pending = "master" /\ decision = "descend" THEN Append(open, pendOpen)
  ELSE open

\* The masters met, with the one that awaits its decision.
Met == IF pending = "master" THEN Append(open, pendOpen) ELSE Entered

\* Masters begin one inside another, all before pos.
Rising(o, pos) ==
  \A i \in 1..Len(o) : o[i].offset < pos /\ \A j \in 1..(i - 1) : o[j].offset < o[i].offset

\* Of the masters o the first k are outside the Segment seg and have no entry in
\* r; the Segment and those inside it have.
MirrorsFrom(k, r, o, seg) ==
  /\ \A i \in 1..k : r[i] = NoNode
  /\ \A i \in (k + 1)..Len(r) : r[i] = [id |-> o[i].id, offset |-> o[i].offset]
  /\ IF seg = NoNode THEN k = Len(r) ELSE k < Len(r) /\ seg = r[k + 1]

Mirrors(r, o, seg) ==
  Len(r) = Len(o) /\ \E k \in 0..Len(r) : MirrorsFrom(k, r, o, seg)

\* A cursor is there, and the assembler still uses its lists.
Live == ~resyncing /\ (closed => call = "finalize")

\* The node in hand is the one the cursor has pending.
NodeMatches ==
  fresh =>
    /\ Draining /\ asked = "none" /\ events # << >>
    /\ Node.ev \in {"master", "leaf", "end"}
    /\ Node.ev = "master" => /\ pending = "master" /\ decision = "none"
                             /\ pendOpen = EndedMaster
    /\ Node.ev = "leaf" => pending = "leaf"
    /\ Node.ev = "end" => pending = "none" /\ EndedMaster \in OpenMaster

\* A master is never skipped to an end it does not have, nor left undecided.
Decided ==
  pending = "master" => /\ fresh \/ decision \in {"descend", "skipSubtree"}
                        /\ decision = "skipSubtree" => pendOpen.size # UnknownSize

\* What is what, and when.
Ruled ==
  /\ segment # NoNode => segment.id = "Segment"
  /\ cluster # NoNode => cluster.id = "Cluster"
  /\ asked # "none" => events # << >> /\ outcome \in {"go", "ok"}
  /\ finalized => closed
  /\ call \in {"feed", "scan", "resume"} => ~closed
  /\ call = "finalize" => closed
  /\ call \in {"feed", "resume"} => outcome \in {"go", "ok", "Content"} \cup Malformed
  /\ resyncing => ~closed /\ cause \in Malformed

\* The inductive invariant.
Tracking ==
  /\ NodeMatches /\ Decided /\ Ruled
  /\ Rising(Met, p.pos)
  /\ Live => Mirrors(retaining, Entered, segment)

FullInv == CursorInv /\ AsmTypeOK /\ HeldInv /\ Tracking

-----------------------------------------------------------------------------
(* The answers of the parser.                                              *)

\* What Peek can say of any parser.
LEMMA PeekNames ==
  ASSUME NEW d, NEW q
  PROVE  PeekResult(d, q) \in {"ok", "EndMaster", "NeedMoreData", "CurrentPending"} \cup Malformed
  BY DEF PeekResult, HeaderResult, HeaderOutcome, VINTResult, Malformed

\* What FinalizeEOF can say.
LEMMA EOFNames ==
  ASSUME NEW d, NEW q
  PROVE  FinalizeEOFResult(d, q) \in {"ok", "CurrentPending"} \cup Malformed \cup Incomplete
  <1>1. PeekResult(d, AfterReachedEnds(q))
          \in {"ok", "EndMaster", "NeedMoreData", "CurrentPending"} \cup Malformed
    BY PeekNames
  <1>2. LeftoverResult(d, q) \in {"ok", "CurrentPending"} \cup Malformed \cup Incomplete
    BY <1>1 DEF LeftoverResult, Incomplete
  <1> QED BY <1>2 DEF FinalizeEOFResult, Incomplete

\* A decision that can be carried out moves the parser forward, if at all.
LEMMA ResolveGoesForward ==
  ASSUME CursorInv, err = "none", ResolveResult = "ok"
  PROVE  /\ p.pos \in Nat
         /\ ResolvedParser.pos \in Nat
         /\ p.pos <= ResolvedParser.pos
  <1>1. p.pos \in Nat /\ p.fed \in Nat /\ p.current.size \in Extent
    BY DEF CursorInv, TypeOK, ParserState, ElementCtx
  <1>2. CASE pending = "master" /\ decision # "skipSubtree"
    BY <1>1, <1>2 DEF ResolvedParser, EnterMaster, At
  <1>3. CASE \/ pending = "master" /\ decision = "skipSubtree"
             \/ pending = "leaf" /\ decision # "payloadDone"
    <2>1. PayloadResult(p) = "ok"
      BY <1>3 DEF ResolveResult, SkipPayloadResult
    <2>2. p.current.size \in Nat
      BY <1>1, <2>1 DEF PayloadResult, Extent
    <2>3. ResolvedParser = StepOver(p)
      BY <1>3 DEF ResolvedParser
    <2> QED BY <1>1, <2>2, <2>3 DEF StepOver, At
  <1>4. CASE pending = "none" \/ (pending = "leaf" /\ decision = "payloadDone")
    BY <1>1, <1>4 DEF ResolvedParser
  <1> QED BY <1>2, <1>3, <1>4 DEF CursorInv, TypeOK

-----------------------------------------------------------------------------
(* What a pull changes.                                                    *)

\* The last event of a sequence that one was appended to.
LEMMA LastEvent ==
  ASSUME NEW s \in Seq(Event), NEW e
  PROVE  Append(s, e) # << >> /\ Top(Append(s, e)) = e /\ Append(s, e) # s
  <1>1. Len(Append(s, e)) = Len(s) + 1 /\ Append(s, e)[Len(s) + 1] = e /\ Len(s) \in Nat
    BY AppendProperties, LenProperties
  <1> QED BY <1>1, EmptySeq, LenProperties DEF Top

\* The ways of a pull, by the event e it reports.
NothingNew ==
  /\ events' = events
  /\ \/ UNCHANGED <<p, open, pending, decision, pendOpen>>
     \/ /\ err = "none" /\ ResolveResult = "ok"
        /\ open' = ResolvedOpen /\ Settled /\ p.pos <= p'.pos

Concluded(e) ==
  /\ err = "none" /\ ResolveResult = "ok"
  /\ e.ev = "eof" \/ (e.ev = "fail" /\ e.why \in Malformed \cup Incomplete
                      /\ (~finalized => e.why \in Malformed))
  /\ open' = ResolvedOpen /\ Settled /\ p.pos <= p'.pos

Presented(e) ==
  /\ err = "none" /\ ResolveResult = "ok"
  /\ e.ev \in {"master", "leaf"} /\ pending' = e.ev /\ decision' = "none"
  /\ e.ev = "master" => pendOpen' = [id |-> e.id, offset |-> e.offset, size |-> e.size]
  /\ open' = ResolvedOpen
  /\ p.pos <= e.offset /\ e.offset < p'.pos /\ p.pos <= p'.pos

EndedTop(e) ==
  /\ err = "none" /\ ResolveResult = "ok"
  /\ e.ev = "end" /\ Settled
  /\ ResolvedOpen # << >> /\ open' = Pop(ResolvedOpen)
  /\ e.id = Top(ResolvedOpen).id /\ e.offset = Top(ResolvedOpen).offset
  /\ e.size = Top(ResolvedOpen).size
  /\ p.pos <= p'.pos

Reports(e) == Concluded(e) \/ Presented(e) \/ EndedTop(e)

\* The end of the innermost master is reported as such.
LEMMA IssueReports ==
  ASSUME err = "none", ResolveResult = "ok", ResolvedOpen # << >>, Settled,
         NEW q, NEW end, NEW why, p.pos <= q.pos, IssueEnd(q, ResolvedOpen, end, why)
  PROVE  \E e : events' = Append(events, e) /\ Reports(e)
  <1> DEFINE e == EndNode(Top(ResolvedOpen), Len(ResolvedOpen) - 1, end, why)
  <1>1. events' = Append(events, e) /\ open' = Pop(ResolvedOpen) /\ p' = q
    BY DEF IssueEnd
  <1>2. e.ev = "end" /\ e.id = Top(ResolvedOpen).id /\ e.offset = Top(ResolvedOpen).offset
        /\ e.size = Top(ResolvedOpen).size
    BY DEF EndNode
  <1> QED BY <1>1, <1>2 DEF Reports, EndedTop

\* A failure is reported as such.
LEMMA FailReports ==
  ASSUME err = "none", ResolveResult = "ok", Settled, open' = ResolvedOpen, p.pos <= p'.pos,
         NEW why \in Malformed \cup Incomplete, ~finalized => why \in Malformed, Fail(why)
  PROVE  \E e : events' = Append(events, e) /\ Reports(e)
  <1> DEFINE e == Outcome("fail", why)
  <1>1. events' = Append(events, e) /\ e.ev = "fail" /\ e.why = why
    BY DEF Fail, Outcome
  <1> QED BY <1>1 DEF Reports, Concluded

\* A master in the queue of FinalizeEOF is the innermost open one.
LEMMA DequeueReports ==
  ASSUME err = "none", ResolveResult = "ok", Settled,
         ResolvedOpen \in Seq(OpenMaster), NEW q, p.pos <= q.pos,
         NEW cs \in Seq([id : ElementID, end : Nat]), cs # << >>,
         ClosesAll(cs, ResolvedOpen), DequeueClose(q, ResolvedOpen, cs)
  PROVE  \E e : events' = Append(events, e) /\ Reports(e)
  <1>1. ResolvedOpen # << >> /\ Top(ResolvedOpen).id = Head(cs).id
    BY DequeueKeepsClosing
  <1>2. IssueEnd(q, ResolvedOpen, Head(cs).end, "EndOfInput")
    BY <1>1 DEF DequeueClose
  <1> QED BY <1>1, <1>2, IssueReports

\* A healthy cursor whose skips have an end can carry out its decision, now or
\* when the bytes are in.
LEMMA SkipsCarryOut ==
  ASSUME CursorInv, Decided, err = "none"
  PROVE  ResolveResult \in {"ok", "NeedMoreData"}
  <1>1. ResolveResult # "SkipUnknownSize"
    BY DEF Decided, ResolveResult, PayloadResult, EnterMasterResult, SkipPayloadResult
  <1> QED BY <1>1, Resolving

\* A header is reported as the node it begins, or ends an unknown-size master.
LEMMA HeaderReports ==
  ASSUME CursorInv, NextHeader
  PROVE  \E e : events' = Append(events, e) /\ Reports(e)
  <1> DEFINE q == ResolvedParser
             o == ResolvedOpen
             h == HeaderAt(doc, q.pos)
  <1>1. /\ err = "none" /\ ResolveResult = "ok" /\ closes = << >>
        /\ PeekResult(doc, q) = "ok" /\ AdvanceHeader(q, o)
    BY DEF NextHeader
  <1>2. ~eofRun
    BY <1>1, PeekedMore
  <1>3. Ready(q, o)
    BY <1>1, <1>2, BeforeEOF
  <1>4. h \in Header /\ HeaderLen(h) \in 1..(q.fed - q.pos) /\ h.id \in ElementID
    BY <1>1, <1>3, PeekAnswers DEF Ready, CursorInv, TypeOK, Header
  <1>5. KindOf[h.id] \in {"master", "leaf"}
    BY <1>4, Assumption, OptionsAssumption DEF DocumentsAssumption, Kind
  <1>6. p.pos \in Nat /\ q.pos \in Nat /\ p.pos <= q.pos /\ q.fed \in Nat
    BY <1>1, <1>3, ResolveGoesForward DEF Ready, Quiet, ParserState
  <1> HIDE DEF q, h, o
  <1>7. CASE CrossesBoundary(q, o, h)
    <2>1. o # << >> /\ Top(o).size = UnknownSize
      BY <1>7 DEF CrossesBoundary
    <2>2. q.stack # << >> /\ q.stack \in Seq(Frame) /\ o \in Seq(OpenMaster)
      BY <1>3, <2>1, EmptySeq, LenProperties DEF Ready, SameMasters, Quiet, ParserState
    <2>3. Top(q.stack).end = UnknownSize
      BY <1>3, <2>1, <2>2, PopKeepsMasters DEF Ready
    <2>4. CloseMasterResult(q) = "ok"
      BY <2>2, <2>3 DEF CloseMasterResult
    <2>5. IssueEnd(PopMaster(q), o, q.pos, "Boundary") /\ Settled
      BY <1>1, <1>5, <1>7, <2>4 DEF AdvanceHeader, h
    <2>6. p.pos <= PopMaster(q).pos
      BY <1>6 DEF PopMaster, At
    <2> QED BY <1>1, <2>1, <2>5, <2>6, IssueReports DEF o
  <1>8. CASE ~CrossesBoundary(q, o, h)
    <2> DEFINE e == ElementNode(KindOf[h.id], h, q.pos, Len(o))
    <2>1. /\ p' = ConsumeHeader(doc, q) /\ open' = o
          /\ pending' = KindOf[h.id] /\ decision' = "none"
          /\ pendOpen' = IF KindOf[h.id] = "master"
                         THEN [id |-> h.id, offset |-> q.pos, size |-> h.size] ELSE NoMaster
          /\ events' = Append(events, e)
      BY <1>1, <1>5, <1>8 DEF AdvanceHeader, h
    <2>2. e.ev = KindOf[h.id] /\ e.id = h.id /\ e.offset = q.pos /\ e.size = h.size
      BY DEF ElementNode
    <2>3. p'.pos = q.pos + HeaderLen(h)
      BY <2>1 DEF ConsumeHeader, At, h
    <2>4. q.pos < p'.pos /\ p.pos <= p'.pos
      BY <1>4, <1>6, <2>3
    <2> HIDE DEF e
    <2>5. Presented(e)
      BY <1>1, <1>5, <1>6, <2>1, <2>2, <2>3, <2>4 DEF Presented, o
    <2> QED BY <2>1, <2>5 DEF Reports
  <1> QED BY <1>7, <1>8

\* The declared end of a master is reported as its end.
LEMMA EndReports ==
  ASSUME CursorInv, NextEnd
  PROVE  \E e : events' = Append(events, e) /\ Reports(e)
  <1> DEFINE q == ResolvedParser
             o == ResolvedOpen
  <1>1. /\ err = "none" /\ ResolveResult = "ok" /\ closes = << >>
        /\ PeekResult(doc, q) = "EndMaster" /\ AdvanceEnd(q, o)
    BY DEF NextEnd
  <1>2. ~eofRun
    BY <1>1, PeekedMore
  <1>3. Ready(q, o)
    BY <1>1, <1>2, BeforeEOF
  <1>4. AtMasterEnd(q)
    BY <1>1, <1>3, PeekAnswers DEF Ready, CursorInv, TypeOK
  <1>5. q.stack # << >> /\ q.stack \in Seq(Frame) /\ o \in Seq(OpenMaster)
        /\ SameMasters(o, q.stack)
    BY <1>3, <1>4 DEF AtMasterEnd, Ready, Quiet, ParserState
  <1>6. o # << >>
    BY <1>5, PopKeepsMasters
  <1>7. p.pos \in Nat /\ q.pos \in Nat /\ p.pos <= q.pos
    BY <1>1, ResolveGoesForward
  <1>8. LeaveMasterResult(q) = "ok"
    <2>1. Top(q.stack) \in Frame
      BY <1>5, PopFacts
    <2> QED BY <1>4, <1>5, <1>7, <2>1 DEF AtMasterEnd, LeaveMasterResult, Frame, Extent, UnknownSize
  <1> HIDE DEF q, o
  <1>9. IssueEnd(PopMaster(q), o, q.pos, "DeclaredEnd") /\ Settled
    BY <1>1, <1>8 DEF AdvanceEnd
  <1>10. p.pos <= PopMaster(q).pos
    BY <1>7 DEF PopMaster, At
  <1> QED BY <1>1, <1>6, <1>9, <1>10, IssueReports DEF o

\* The end of the input is reported once the masters it closed have been, or as the
\* failure that the input is incomplete.
LEMMA EOFReports ==
  ASSUME CursorInv, NextRunsEOF
  PROVE  \E e : events' = Append(events, e) /\ Reports(e)
  <1> DEFINE q == ResolvedParser
             o == ResolvedOpen
             r == FinalizeEOFResult(doc, q)
  <1>1. /\ err = "none" /\ ResolveResult = "ok" /\ closes = << >>
        /\ PeekResult(doc, q) = "NeedMoreData" /\ finalized /\ ~eofRun /\ Settled
    BY DEF NextRunsEOF
  <1>2. Ready(q, o)
    BY <1>1, BeforeEOF
  <1>3. r \in {"ok"} \cup Incomplete
    BY <1>1, <1>2, EndOfInputAnswers DEF Ready, CursorInv, TypeOK
  <1>4. p.pos \in Nat /\ q.pos \in Nat /\ p.pos <= q.pos
    BY <1>1, ResolveGoesForward
  <1>5. CASE r # "ok"
    <2>1. Fail(r) /\ p' = q /\ open' = o
      BY <1>5 DEF NextRunsEOF
    <2> QED BY <1>1, <1>3, <1>4, <1>5, <2>1, FailReports
  <1>6. CASE r = "ok" /\ ClosedMasters(q) # << >>
    <2>1. DequeueClose(FinalizeEOF(q), o, ClosedMasters(q))
      BY <1>6 DEF NextRunsEOF
    <2>2. /\ ClosedMasters(q) \in Seq([id : ElementID, end : Nat])
          /\ ClosesAll(ClosedMasters(q), o) /\ o \in Seq(OpenMaster)
      BY <1>2, ClosedMastersClose DEF Ready
    <2>3. p.pos <= FinalizeEOF(q).pos
      BY <1>4 DEF FinalizeEOF, At
    <2> HIDE DEF q, r
    <2> QED BY <1>1, <1>6, <2>1, <2>2, <2>3, DequeueReports
  <1>7. CASE r = "ok" /\ ClosedMasters(q) = << >>
    <2>1. /\ p' = FinalizeEOF(q) /\ open' = o
          /\ events' = Append(events, Outcome("eof", "none"))
      BY <1>7 DEF NextRunsEOF
    <2>2. p'.pos = q.pos
      BY <2>1 DEF FinalizeEOF, At
    <2> QED BY <1>1, <1>4, <2>1, <2>2 DEF Reports, Concluded, Outcome
  <1> QED BY <1>5, <1>6, <1>7

\* What a pull reports, and what it leaves open.
LEMMA PullReports ==
  ASSUME CursorInv, Decided, CursorNext
  PROVE  NothingNew \/ \E e : events' = Append(events, e) /\ Reports(e)
  <1>1. CASE NextAgain \/ NextResolveBlocked
    BY <1>1 DEF NextAgain, NextResolveBlocked, NothingNew
  <1>2. CASE NextResolveFails
    BY <1>2, SkipsCarryOut DEF NextResolveFails
  <1>3. CASE NextNeedsMore
    BY <1>3, ResolveGoesForward DEF NextNeedsMore, NothingNew
  <1>4. CASE NextDequeue
    <2>1. /\ err = "none" /\ ResolveResult = "ok" /\ closes # << >> /\ Settled
          /\ DequeueClose(ResolvedParser, ResolvedOpen, closes)
      BY <1>4 DEF NextDequeue
    <2>2. eofRun
      BY <2>1 DEF CursorInv, StackMirror
    <2>3. ResolvedParser = p /\ ResolvedOpen = open /\ ClosesAll(closes, open)
      BY <2>1, <2>2, Resolving DEF CursorInv, StackMirror
    <2> QED BY <2>1, <2>3, ResolveGoesForward, DequeueReports DEF CursorInv, TypeOK
  <1>5. CASE NextRunsEOF
    BY <1>5, EOFReports
  <1>6. CASE NextEOF
    BY <1>6, ResolveGoesForward DEF NextEOF, Reports, Concluded, Outcome
  <1>7. CASE NextEnd
    BY <1>7, EndReports
  <1>8. CASE NextHeader
    BY <1>8, HeaderReports
  <1>9. CASE NextMalformed
    <2>1. /\ err = "none" /\ ResolveResult = "ok" /\ closes = << >>
          /\ PeekResult(doc, ResolvedParser) \in Malformed \cup Misuse
          /\ Fail(PeekResult(doc, ResolvedParser))
          /\ p' = ResolvedParser /\ open' = ResolvedOpen /\ Settled
      BY <1>9 DEF NextMalformed
    <2>2. ~eofRun
      BY <2>1, PeekedMore DEF Malformed, Misuse
    <2>3. PeekResult(doc, ResolvedParser) \in Malformed
      BY <2>1, <2>2, BeforeEOF, PeekAnswers DEF Ready, CursorInv, TypeOK, Misuse
    <2> QED BY <2>1, <2>3, ResolveGoesForward, FailReports
  <1> QED BY <1>1, <1>2, <1>3, <1>4, <1>5, <1>6, <1>7, <1>8, <1>9 DEF CursorNext

-----------------------------------------------------------------------------
(* Lists of masters.                                                       *)

\* Taking what is on top off and putting it back changes nothing.
LEMMA PushBack ==
  ASSUME NEW S, NEW s \in Seq(S), s # << >>
  PROVE  Append(Pop(s), Top(s)) = s
  <1>1. /\ Top(s) \in S /\ Pop(s) \in Seq(S) /\ Len(Pop(s)) = Len(s) - 1
        /\ \A i \in 1..(Len(s) - 1) : Pop(s)[i] = s[i]
        /\ Len(s) \in 1..Len(s)
    BY PopFacts
  <1>2. Len(s) \in Nat
    BY LenProperties
  <1> DEFINE a == Append(Pop(s), Top(s))
  <1>3. a \in Seq(S) /\ Len(a) = Len(s) /\ a[Len(s)] = Top(s)
        /\ \A i \in 1..(Len(s) - 1) : a[i] = Pop(s)[i]
    BY <1>1, <1>2, AppendProperties
  <1>4. \A i \in 1..Len(s) : a[i] = s[i]
    BY <1>1, <1>2, <1>3 DEF Top
  <1> HIDE DEF a
  <1> QED BY <1>3, <1>4, SeqEqual DEF a

\* Taking off what was just put on leaves what was there.
LEMMA PopAppend ==
  ASSUME NEW S, NEW s \in Seq(S), NEW e \in S
  PROVE  Pop(Append(s, e)) = s /\ Top(Append(s, e)) = e /\ Append(s, e) # << >>
  <1> DEFINE a == Append(s, e)
  <1>1. /\ a \in Seq(S) /\ Len(a) = Len(s) + 1 /\ a[Len(s) + 1] = e /\ Len(s) \in Nat
        /\ \A i \in 1..Len(s) : a[i] = s[i]
    BY AppendProperties, LenProperties
  <1>2. a # << >>
    BY <1>1, EmptySeq, LenProperties
  <1> HIDE DEF a
  <1>3. Pop(a) \in Seq(S) /\ Len(Pop(a)) = Len(a) - 1
        /\ \A i \in 1..(Len(a) - 1) : Pop(a)[i] = a[i]
    BY <1>1, <1>2, PopFacts
  <1>4. Len(Pop(a)) = Len(s) /\ \A i \in 1..Len(s) : Pop(a)[i] = s[i]
    BY <1>1, <1>3
  <1>5. Pop(a) = s
    BY <1>3, <1>4, SeqEqual
  <1> QED BY <1>1, <1>2, <1>5 DEF a, Top

\* Masters that begin before a place begin before a later one.
LEMMA RisingLater ==
  ASSUME NEW o \in Seq(OpenMaster), NEW pos \in Nat, NEW later \in Nat, pos <= later,
         Rising(o, pos)
  PROVE  Rising(o, later)
  <1>1. \A i \in 1..Len(o) : o[i] \in OpenMaster
    BY ElementOfSeq
  <1>2. \A i \in 1..Len(o) : o[i].offset \in Nat
    BY <1>1 DEF OpenMaster
  <1> QED BY <1>2 DEF Rising

\* What is under the top of rising masters rises.
LEMMA RisingUnder ==
  ASSUME NEW o \in Seq(OpenMaster), NEW m \in OpenMaster, NEW pos, Rising(Append(o, m), pos)
  PROVE  Rising(o, pos)
  <1>1. /\ Len(Append(o, m)) = Len(o) + 1 /\ Len(o) \in Nat
        /\ \A i \in 1..Len(o) : Append(o, m)[i] = o[i]
    BY AppendProperties, LenProperties
  <1> QED BY <1>1 DEF Rising

\* A master met at or after that place goes on top.
LEMMA RisingPush ==
  ASSUME NEW o \in Seq(OpenMaster), NEW m \in OpenMaster, NEW pos \in Nat, NEW later \in Nat,
         Rising(o, pos), pos <= m.offset, m.offset < later
  PROVE  Rising(Append(o, m), later)
  <1>1. /\ Len(Append(o, m)) = Len(o) + 1 /\ Len(o) \in Nat
        /\ Append(o, m)[Len(o) + 1] = m
        /\ \A i \in 1..Len(o) : Append(o, m)[i] = o[i]
    BY AppendProperties, LenProperties
  <1>2. m.offset \in Nat /\ \A i \in 1..Len(o) : o[i].offset \in Nat
    <2>1. \A i \in 1..Len(o) : o[i] \in OpenMaster
      BY ElementOfSeq
    <2> QED BY <2>1 DEF OpenMaster
  <1>3. \A i \in 1..Len(o) : o[i].offset < m.offset /\ o[i].offset < later
    BY <1>2 DEF Rising
  <1> SUFFICES ASSUME NEW i \in 1..(Len(o) + 1)
               PROVE  /\ Append(o, m)[i].offset < later
                      /\ \A j \in 1..(i - 1) : Append(o, m)[j].offset < Append(o, m)[i].offset
    BY <1>1 DEF Rising
  <1>4. CASE i = Len(o) + 1
    BY <1>1, <1>3, <1>4
  <1>5. CASE i \in 1..Len(o)
    BY <1>1, <1>3, <1>5 DEF Rising
  <1> QED BY <1>1, <1>4, <1>5

-----------------------------------------------------------------------------
(* The assembler's list beside the cursor's.                               *)

NameOf(m) == [id |-> m.id, offset |-> m.offset]

\* The name of a master is not the name of none.
LEMMA NamesAreNames ==
  ASSUME NEW m \in OpenMaster
  PROVE  NameOf(m) \in NodeName /\ NameOf(m) # NoNode
  BY DEF NameOf, NodeName, OpenMaster, Offset, NoNode

\* Outside the Segment a master entered has no entry.
LEMMA MirrorOutside ==
  ASSUME NEW r \in Seq(NodeName), NEW o \in Seq(OpenMaster), NEW m \in OpenMaster,
         Mirrors(r, o, NoNode)
  PROVE  Mirrors(Append(r, NoNode), Append(o, m), NoNode)
  <1>1. /\ Len(r) = Len(o) /\ Len(r) \in Nat /\ \A i \in 1..Len(r) : r[i] = NoNode
    BY LenProperties DEF Mirrors, MirrorsFrom
  <1>2. NoNode \in NodeName
    BY DEF NoNode, NodeName, Offset
  <1>3. /\ Len(Append(r, NoNode)) = Len(r) + 1 /\ Len(Append(o, m)) = Len(o) + 1
        /\ \A i \in 1..(Len(r) + 1) : Append(r, NoNode)[i] = NoNode
    BY <1>1, <1>2, AppendProperties
  <1>4. MirrorsFrom(Len(r) + 1, Append(r, NoNode), Append(o, m), NoNode)
    BY <1>1, <1>3 DEF MirrorsFrom
  <1> QED BY <1>1, <1>3, <1>4 DEF Mirrors

\* The Segment begins: it is the first with an entry.
LEMMA MirrorSegment ==
  ASSUME NEW r \in Seq(NodeName), NEW o \in Seq(OpenMaster), NEW m \in OpenMaster,
         Mirrors(r, o, NoNode)
  PROVE  Mirrors(Append(r, NameOf(m)), Append(o, m), NameOf(m))
  <1> DEFINE n == NameOf(m)
             k == Len(r)
  <1>1. /\ Len(r) = Len(o) /\ k \in Nat /\ \A i \in 1..k : r[i] = NoNode
    BY LenProperties DEF Mirrors, MirrorsFrom
  <1>2. n \in NodeName /\ n # NoNode
    BY NamesAreNames
  <1>3. /\ Len(Append(r, n)) = k + 1 /\ Len(Append(o, m)) = k + 1
        /\ Append(r, n)[k + 1] = n /\ Append(o, m)[k + 1] = m
        /\ \A i \in 1..k : Append(r, n)[i] = NoNode
    BY <1>1, <1>2, AppendProperties
  <1>4. n = [id |-> m.id, offset |-> m.offset]
    BY DEF NameOf
  <1> HIDE DEF n, k
  <1>5. MirrorsFrom(k, Append(r, n), Append(o, m), n)
    BY <1>1, <1>2, <1>3, <1>4 DEF MirrorsFrom
  <1> QED BY <1>1, <1>3, <1>5 DEF Mirrors, n

\* Inside the Segment a master entered has one.
LEMMA MirrorInside ==
  ASSUME NEW r \in Seq(NodeName), NEW o \in Seq(OpenMaster), NEW m \in OpenMaster,
         NEW seg, seg # NoNode, Mirrors(r, o, seg)
  PROVE  Mirrors(Append(r, NameOf(m)), Append(o, m), seg)
  <1> DEFINE n == NameOf(m)
  <1>1. PICK k \in 0..Len(r) : MirrorsFrom(k, r, o, seg)
    BY DEF Mirrors
  <1>2. Len(r) = Len(o) /\ Len(r) \in Nat /\ k < Len(r) /\ seg = r[k + 1]
    BY <1>1, LenProperties DEF Mirrors, MirrorsFrom
  <1>3. n \in NodeName
    BY NamesAreNames
  <1>4. /\ Len(Append(r, n)) = Len(r) + 1 /\ Len(Append(o, m)) = Len(r) + 1
        /\ Append(r, n)[Len(r) + 1] = n /\ Append(o, m)[Len(r) + 1] = m
        /\ \A i \in 1..Len(r) : Append(r, n)[i] = r[i] /\ Append(o, m)[i] = o[i]
    BY <1>2, <1>3, AppendProperties
  <1>5. n = [id |-> m.id, offset |-> m.offset]
    BY DEF NameOf
  <1> HIDE DEF n
  <1>6. \A i \in (k + 1)..(Len(r) + 1) :
          Append(r, n)[i] = [id |-> Append(o, m)[i].id, offset |-> Append(o, m)[i].offset]
    <2> SUFFICES ASSUME NEW i \in (k + 1)..(Len(r) + 1)
                 PROVE  Append(r, n)[i] = [id |-> Append(o, m)[i].id,
                                           offset |-> Append(o, m)[i].offset]
      OBVIOUS
    <2>1. CASE i = Len(r) + 1
      BY <2>1, <1>4, <1>5
    <2>2. CASE i \in (k + 1)..Len(r)
      BY <2>2, <1>1, <1>2, <1>4 DEF MirrorsFrom
    <2>3. i = Len(r) + 1 \/ i \in (k + 1)..Len(r)
      BY <1>2
    <2> QED BY <2>1, <2>2, <2>3
  <1>7. MirrorsFrom(k, Append(r, n), Append(o, m), seg)
    BY <1>1, <1>2, <1>4, <1>6 DEF MirrorsFrom
  <1> QED BY <1>2, <1>4, <1>7 DEF Mirrors, n

\* A master that ends has the top entry, or none where nothing has; and the
\* Segment is popped only as itself.
LEMMA MirrorPop ==
  ASSUME NEW r \in Seq(NodeName), NEW o \in Seq(OpenMaster), NEW m \in OpenMaster,
         NEW seg, NEW pos, Rising(Append(o, m), pos), Mirrors(r, Append(o, m), seg)
  PROVE  /\ r # << >>
         /\ Top(r) = IF seg = NoNode THEN NoNode ELSE NameOf(m)
         /\ Mirrors(Pop(r), o, IF Top(r) = seg THEN NoNode ELSE seg)
  <1> DEFINE a == Append(o, m)
             n == Len(o)
             q == Pop(r)
  <1>1. n \in Nat
    BY LenProperties
  <1>2. /\ Len(a) = n + 1 /\ a[n + 1] = m
        /\ \A i \in 1..n : a[i] = o[i]
        /\ a \in Seq(OpenMaster)
    BY AppendProperties, LenProperties
  <1>3. PICK k \in 0..Len(r) : MirrorsFrom(k, r, a, seg)
    BY DEF Mirrors
  <1>4. Len(r) = n + 1 /\ r # << >>
    BY <1>1, <1>2, EmptySeq DEF Mirrors
  <1>5. q \in Seq(NodeName) /\ Len(q) = n /\ \A i \in 1..n : q[i] = r[i]
    BY <1>1, <1>4, PopFacts
  <1>6. Top(r) = r[n + 1]
    BY <1>4 DEF Top
  <1>7. Rising(a, pos)
    OBVIOUS
  <1>8. \A i \in 1..(n + 1) : a[i].offset \in Nat
    <2>1. \A i \in 1..(n + 1) : a[i] \in OpenMaster
      BY <1>2, ElementOfSeq
    <2> QED BY <2>1 DEF OpenMaster
  <1>9. n = Len(o)
    OBVIOUS
  <1> HIDE DEF a, n, q
  \* It suffices to say how many of what is left have no entry.
  <1>10. ASSUME NEW s, NEW j \in 0..n, MirrorsFrom(j, q, o, s)
         PROVE  Mirrors(q, o, s)
    BY <1>5, <1>9, <1>10 DEF Mirrors
  <1>11. CASE seg = NoNode
    <2>1. \A i \in 1..(n + 1) : r[i] = NoNode
      BY <1>3, <1>4, <1>11 DEF MirrorsFrom
    <2>2. Top(r) = NoNode
      BY <1>1, <1>6, <2>1
    <2>3. MirrorsFrom(n, q, o, NoNode)
      BY <1>1, <1>5, <2>1 DEF MirrorsFrom
    <2>4. Mirrors(q, o, NoNode)
      BY <1>1, <1>10, <2>3
    <2> QED BY <1>4, <1>11, <2>2, <2>4 DEF q
  <1>12. CASE seg # NoNode
    <2>1. /\ k < n + 1 /\ seg = r[k + 1] /\ k \in Nat
          /\ \A i \in (k + 1)..(n + 1) : r[i] = [id |-> a[i].id, offset |-> a[i].offset]
          /\ \A i \in 1..k : r[i] = NoNode
      BY <1>1, <1>3, <1>4, <1>12 DEF MirrorsFrom
    <2>2. r[n + 1] = [id |-> a[n + 1].id, offset |-> a[n + 1].offset]
      BY <1>1, <2>1
    <2>3. Top(r) = NameOf(m)
      BY <1>2, <1>6, <2>2 DEF NameOf
    <2>4. CASE k = n
      <3>1. MirrorsFrom(n, q, o, NoNode)
        BY <1>1, <1>5, <2>1, <2>4 DEF MirrorsFrom
      <3>2. Mirrors(q, o, NoNode) /\ Top(r) = seg
        BY <1>1, <1>6, <1>10, <2>1, <2>4, <3>1
      <3> QED BY <1>4, <1>12, <2>3, <3>2 DEF q
    <2>5. CASE k < n
      <3>1. seg.offset = a[k + 1].offset
        <4>1. k + 1 \in (k + 1)..(n + 1)
          BY <1>1, <2>1
        <4>2. seg = [id |-> a[k + 1].id, offset |-> a[k + 1].offset]
          BY <2>1, <4>1
        <4> QED BY <4>2
      <3>2. a[k + 1].offset < a[n + 1].offset
        <4>1. n + 1 \in 1..Len(a) /\ k + 1 \in 1..((n + 1) - 1)
          BY <1>1, <1>2, <2>1, <2>5
        <4> QED BY <1>7, <4>1 DEF Rising
      <3>3. Top(r).offset = a[n + 1].offset
        BY <1>6, <2>2
      <3>4. a[k + 1].offset \in Nat /\ a[n + 1].offset \in Nat
        BY <1>1, <1>8, <2>1, <2>5
      <3>5. Top(r) # seg
        BY <3>1, <3>2, <3>3, <3>4
      <3>6. \A i \in (k + 1)..n : q[i] = [id |-> o[i].id, offset |-> o[i].offset]
        BY <1>1, <1>2, <1>5, <2>1
      <3>7. MirrorsFrom(k, q, o, seg)
        <4>1. (\A i \in 1..k : q[i] = NoNode) /\ k < Len(q) /\ seg = q[k + 1]
          <5>1. \A i \in 1..k : i \in 1..n
            BY <1>1, <2>1, <2>5
          <5>2. k + 1 \in 1..n /\ k < Len(q)
            BY <1>1, <1>5, <2>1, <2>5
          <5> QED BY <1>5, <2>1, <5>1, <5>2
        <4> QED BY <1>5, <1>12, <3>6, <4>1 DEF MirrorsFrom
      <3>8. Mirrors(q, o, seg)
        BY <1>1, <1>10, <2>1, <2>5, <3>7
      <3> QED BY <1>4, <1>12, <2>3, <3>5, <3>8 DEF q
    <2> QED BY <1>1, <2>1, <2>4, <2>5
  <1> QED BY <1>11, <1>12

-----------------------------------------------------------------------------
(* A pull.                                                                 *)

\* The lists of masters are lists of masters, and both rise.
LEMMA ListTypes ==
  ASSUME FullInv
  PROVE  /\ Entered \in Seq(OpenMaster) /\ Met \in Seq(OpenMaster) /\ open \in Seq(OpenMaster)
         /\ p.pos \in Nat
         /\ Rising(Entered, p.pos)
         /\ EndInHand => pending = "none"
  <1>1. open \in Seq(OpenMaster) /\ p.pos \in Nat
        /\ (pending = "master" => pendOpen \in OpenMaster)
    BY DEF FullInv, CursorInv, TypeOK, ParserState
  <1>2. EndInHand => pending = "none" /\ EndedMaster \in OpenMaster
    BY DEF EndInHand, FullInv, Tracking, NodeMatches
  <1>3. Entered \in Seq(OpenMaster) /\ Met \in Seq(OpenMaster)
    BY <1>1, <1>2, AppendProperties DEF Entered, Met
  <1>4. Rising(Met, p.pos)
    BY DEF FullInv, Tracking
  <1>5. Rising(Entered, p.pos)
    <2>1. CASE pending = "master"
      <3>1. Met = Append(open, pendOpen) /\ Entered \in {Met, open}
        BY <1>2, <2>1 DEF Met, Entered
      <3>2. Rising(open, p.pos)
        BY <1>1, <1>4, <2>1, <3>1, RisingUnder
      <3> QED BY <1>4, <3>1, <3>2
    <2>2. CASE pending # "master"
      BY <1>4, <2>2 DEF Met
    <2> QED BY <2>1, <2>2
  <1> QED BY <1>1, <1>2, <1>3, <1>5

\* What the next Next resolves is what the assembler has entered.
LEMMA ResolvedIsEntered ==
  ASSUME Decided, ~fresh
  PROVE  ResolvedOpen = Entered
  BY DEF Decided, ResolvedOpen, Entered, EndInHand

\* No Next undoes Finalize.
LEMMA NextKeepsFinalized ==
  ASSUME CursorNext
  PROVE  finalized' = finalized
  BY DEF CursorNext, NextAgain, NextResolveBlocked, NextResolveFails, NextDequeue,
         NextNeedsMore, NextRunsEOF, NextEOF, NextEnd, NextHeader, NextMalformed, Idle

\* What is left to show of a pull: the node, and the lists.
LEMMA PullRest ==
  ASSUME FullInv, Pull, Entered' = Entered, NodeMatches', Decided', Rising(Met', p'.pos),
         \/ outcome' \in {"go", "ok"}
         \/ /\ outcome' \in Malformed \cup Incomplete
            /\ ~finalized => outcome' \in Malformed
  PROVE  Tracking'
  <1>1. /\ ~fresh /\ asked = "none" /\ Draining /\ CursorNext
        /\ UNCHANGED <<resyncing, closed, call, retaining, segment, cluster, asked, cause>>
    BY DEF Pull, recovery, content
  <1>2. finalized' = finalized
    BY <1>1, NextKeepsFinalized
  <1>3. Ruled'
    BY <1>1, <1>2 DEF FullInv, Tracking, Ruled, Draining
  <1>4. Live' => Mirrors(retaining', Entered', segment')
    BY <1>1 DEF Live, FullInv, Tracking
  <1> QED BY <1>3, <1>4 DEF Tracking

\* A pull that reports nothing leaves what was entered, resolved or not.
LEMMA PullNothing ==
  ASSUME FullInv, CursorInv', Pull, NothingNew
  PROVE  Tracking'
  <1>1. ~fresh /\ ~fresh' /\ outcome' = "ok" /\ p'.pos \in Nat
    BY DEF Pull, NothingNew, CursorInv, TypeOK, ParserState
  <1>2. ResolvedOpen = Entered
    BY <1>1, ResolvedIsEntered DEF FullInv, Tracking
  <1>3. NodeMatches'
    BY <1>1 DEF NodeMatches
  <1>4. CASE UNCHANGED <<p, open, pending, decision, pendOpen>>
    <2>1. Entered' = Entered /\ Met' = Met
      BY <1>1, <1>4 DEF Entered, Met, EndInHand
    <2>2. Decided'
      BY <1>1, <1>4 DEF FullInv, Tracking, Decided
    <2>3. Rising(Met', p'.pos)
      BY <1>4, <2>1 DEF FullInv, Tracking
    <2> QED BY <1>1, <1>3, <2>1, <2>2, <2>3, PullRest
  <1>5. CASE open' = ResolvedOpen /\ Settled /\ p.pos <= p'.pos
    <2>1. pending' = "none"
      BY <1>5 DEF Settled
    <2>2. Entered' = Entered /\ Met' = Entered
      BY <1>1, <1>2, <1>5, <2>1 DEF Entered, Met, EndInHand
    <2>3. Decided'
      BY <2>1 DEF Decided
    <2>4. Rising(Met', p'.pos)
      BY <1>1, <1>5, <2>2, ListTypes, RisingLater
    <2> QED BY <1>1, <1>3, <2>2, <2>3, <2>4, PullRest
  <1> QED BY <1>4, <1>5 DEF NothingNew

\* What a pull makes of the event it reports.
LEMMA PullSees ==
  ASSUME FullInv, CursorInv', Pull, NEW e, events' = Append(events, e)
  PROVE  /\ events' # << >> /\ Node' = e
         /\ fresh' = (e.ev \in {"master", "leaf", "end"})
         /\ outcome' = IF e.ev = "fail" THEN e.why ELSE IF e.ev = "eof" THEN "ok" ELSE "go"
         /\ ~fresh /\ p'.pos \in Nat /\ ResolvedOpen = Entered
         /\ asked' = "none" /\ Draining /\ call' = call
  <1>1. events \in Seq(Event) /\ p'.pos \in Nat
    BY DEF FullInv, CursorInv, TypeOK, ParserState
  <1>2. events' # << >> /\ events' # events /\ Top(events') = e
    BY <1>1, LastEvent
  <1>3. Node' = e
    BY <1>2 DEF Node
  <1>4. ~fresh /\ asked' = "none" /\ Draining /\ call' = call
    BY DEF Pull, content
  <1>5. ResolvedOpen = Entered
    BY <1>4, ResolvedIsEntered DEF FullInv, Tracking
  <1> QED BY <1>1, <1>2, <1>3, <1>4, <1>5 DEF Pull

\* The end and the failures conclude a drain.
LEMMA PullConcludes ==
  ASSUME FullInv, CursorInv', Pull, NEW e, events' = Append(events, e), Concluded(e)
  PROVE  Tracking'
  <1>1. /\ ~fresh /\ ~fresh' /\ p'.pos \in Nat /\ ResolvedOpen = Entered
        /\ outcome' = "ok" \/ (outcome' \in Malformed \cup Incomplete
                               /\ (~finalized => outcome' \in Malformed))
    BY PullSees DEF Concluded
  <1>2. pending' = "none" /\ open' = ResolvedOpen /\ p.pos <= p'.pos
    BY DEF Concluded, Settled
  <1>3. Entered' = Entered /\ Met' = Entered
    BY <1>1, <1>2 DEF Entered, Met, EndInHand
  <1>4. Rising(Met', p'.pos)
    BY <1>1, <1>2, <1>3, ListTypes, RisingLater
  <1>5. NodeMatches' /\ Decided'
    BY <1>1, <1>2 DEF NodeMatches, Decided
  <1> QED BY <1>1, <1>3, <1>4, <1>5, PullRest

\* A node presented is pending, and met after all those that are open.
LEMMA PullPresents ==
  ASSUME FullInv, CursorInv', Pull, NEW e, events' = Append(events, e), Presented(e)
  PROVE  Tracking'
  <1>1. /\ events' # << >> /\ Node' = e /\ ~fresh /\ fresh' = TRUE /\ outcome' = "go"
        /\ p'.pos \in Nat /\ ResolvedOpen = Entered
        /\ asked' = "none" /\ Draining /\ call' = call
    BY PullSees DEF Presented
  <1>2. /\ e.ev \in {"master", "leaf"} /\ pending' = e.ev /\ decision' = "none"
        /\ e.ev = "master" => pendOpen' = [id |-> e.id, offset |-> e.offset, size |-> e.size]
        /\ open' = ResolvedOpen
        /\ p.pos <= e.offset /\ e.offset < p'.pos /\ p.pos <= p'.pos
    BY DEF Presented
  <1>3. EndedMaster' = [id |-> e.id, offset |-> e.offset, size |-> e.size] /\ ~EndInHand'
    BY <1>1, <1>2 DEF EndedMaster, EndInHand
  <1>4. Entered' = Entered
    BY <1>1, <1>2, <1>3 DEF Entered
  <1>5. NodeMatches'
    BY <1>1, <1>2, <1>3 DEF NodeMatches, Draining
  <1>6. Decided'
    BY <1>1, <1>2 DEF Decided
  <1>7. Rising(Met', p'.pos)
    <2>1. CASE e.ev = "master"
      <3>1. pendOpen' \in OpenMaster /\ pendOpen'.offset = e.offset
        BY <1>2, <2>1 DEF CursorInv, TypeOK
      <3>2. Met' = Append(Entered, pendOpen')
        BY <1>1, <1>2, <2>1 DEF Met
      <3> QED BY <1>1, <1>2, <3>1, <3>2, ListTypes, RisingPush
    <2>2. CASE e.ev = "leaf"
      <3>1. Met' = Entered
        BY <1>2, <1>4, <2>2 DEF Met
      <3> QED BY <1>1, <1>2, <3>1, ListTypes, RisingLater
    <2> QED BY <1>2, <2>1, <2>2
  <1> QED BY <1>1, <1>4, <1>5, <1>6, <1>7, PullRest

\* A master that ended is in hand until it is dealt with.
LEMMA PullEnds ==
  ASSUME FullInv, CursorInv', Pull, NEW e, events' = Append(events, e), EndedTop(e)
  PROVE  Tracking'
  <1>1. /\ events' # << >> /\ Node' = e /\ ~fresh /\ fresh' = TRUE /\ outcome' = "go"
        /\ p'.pos \in Nat /\ ResolvedOpen = Entered
        /\ asked' = "none" /\ Draining /\ call' = call
    BY PullSees DEF EndedTop
  <1>2. /\ e.ev = "end" /\ pending' = "none" /\ Entered # << >> /\ open' = Pop(Entered)
        /\ e.id = Top(Entered).id /\ e.offset = Top(Entered).offset
        /\ e.size = Top(Entered).size /\ p.pos <= p'.pos
    BY <1>1 DEF EndedTop, Settled
  <1>3. Top(Entered) \in OpenMaster
    BY <1>2, ListTypes, PopFacts
  <1>4. EndedMaster' = [id |-> e.id, offset |-> e.offset, size |-> e.size] /\ EndInHand'
    BY <1>1, <1>2 DEF EndedMaster, EndInHand
  <1>5. EndedMaster' = Top(Entered)
    BY <1>2, <1>3, <1>4 DEF OpenMaster
  <1>6. Entered' = Append(Pop(Entered), Top(Entered))
    BY <1>2, <1>4, <1>5 DEF Entered
  <1>7. Entered' = Entered
    BY <1>2, <1>6, ListTypes, PushBack
  <1>8. NodeMatches'
    BY <1>1, <1>2, <1>3, <1>5 DEF NodeMatches, Draining
  <1>9. Decided'
    BY <1>2 DEF Decided
  <1>10. Met' = Entered
    BY <1>2, <1>7 DEF Met
  <1>11. Rising(Met', p'.pos)
    BY <1>1, <1>2, <1>10, ListTypes, RisingLater
  <1> QED BY <1>1, <1>7, <1>8, <1>9, <1>11, PullRest

\* Whatever a pull reports.
LEMMA PullTracks ==
  ASSUME FullInv, CursorInv', Pull
  PROVE  Tracking'
  <1>1. NothingNew \/ \E e : events' = Append(events, e) /\ Reports(e)
    BY PullReports DEF Pull, FullInv, Tracking
  <1> QED BY <1>1, PullNothing, PullConcludes, PullPresents, PullEnds DEF Reports

-----------------------------------------------------------------------------
(* What the assembler does with a node.                                    *)

\* While it drains, the assembler uses its lists.
LEMMA DrainingIsLive ==
  ASSUME FullInv, Draining
  PROVE  /\ Live /\ Mirrors(retaining, Entered, segment)
         /\ retaining \in Seq(NodeName)
         /\ segment \in NodeName /\ cluster \in NodeName
  <1>1. Live
    BY DEF FullInv, HeldInv, Tracking, Ruled, Draining, Live
  <1> QED BY <1>1 DEF FullInv, Tracking, AsmTypeOK

\* What is left to show of a step of the drain other than a pull.
LEMMA ActRest ==
  ASSUME FullInv, Draining, ~fresh', asked' = "none" \/ (events # << >> /\ outcome' # "Content"),
         UNCHANGED <<resyncing, cause, call, closed, finalized, events>>,
         outcome' \in {outcome, "ok", "Content"},
         segment' \in {segment, NoNode} \/ segment'.id = "Segment",
         cluster' \in {cluster, NoNode} \/ cluster'.id = "Cluster",
         Decided', Rising(Met', p'.pos), Mirrors(retaining', Entered', segment')
  PROVE  Tracking'
  <1>1. NodeMatches'
    BY DEF NodeMatches
  <1>2. Ruled'
    BY DEF FullInv, Tracking, Ruled, Draining
  <1> QED BY <1>1, <1>2 DEF Tracking

\* A master in hand is the one pending, and not among those entered.
LEMMA MasterInHand ==
  ASSUME FullInv, Acting("master")
  PROVE  /\ Draining /\ events # << >> /\ pending = "master" /\ decision = "none"
         /\ pendOpen \in OpenMaster /\ NodeRef = NameOf(pendOpen)
         /\ pendOpen.size = Node.size /\ pendOpen.id = Node.id
         /\ Entered = open /\ Met = Append(open, pendOpen)
         /\ asked = "none"
  <1>1. /\ Draining /\ fresh /\ Node.ev = "master" /\ asked = "none" /\ events # << >>
        /\ pending = "master" /\ decision = "none" /\ pendOpen = EndedMaster
    BY DEF Acting, FullInv, Tracking, NodeMatches
  <1>2. pendOpen \in OpenMaster
    BY <1>1 DEF FullInv, CursorInv, TypeOK
  <1>3. NodeRef = NameOf(pendOpen) /\ pendOpen.size = Node.size /\ pendOpen.id = Node.id
    BY <1>1 DEF EndedMaster, NodeRef, NameOf
  <1> QED BY <1>1, <1>2, <1>3 DEF Entered, Met, EndInHand

\* To descend is to enter it.
LEMMA DescendEnters ==
  ASSUME FullInv, Acting("master"), Descend, ~fresh'
  PROVE  /\ Entered' = Append(Entered, pendOpen)
         /\ Decided' /\ Rising(Met', p'.pos) /\ UNCHANGED <<finalized, events>>
  <1>1. /\ decision' = "descend" /\ UNCHANGED <<p, open, pending, pendOpen, finalized, events>>
    BY DEF Descend
  <1>2. pending = "master" /\ Entered = open /\ Met = Append(open, pendOpen)
    BY MasterInHand
  <1>3. Entered' = Append(open, pendOpen) /\ Met' = Met
    BY <1>1, <1>2 DEF Entered, Met, EndInHand
  <1>4. Decided'
    BY <1>1 DEF Decided
  <1> QED BY <1>1, <1>2, <1>3, <1>4 DEF FullInv, Tracking

\* A master is entered, declined or retained, and the list follows.
LEMMA MasterTracks ==
  ASSUME FullInv, EnterSegment \/ DeclineMaster \/ EnterCluster \/ EnterRetained
  PROVE  Tracking'
  <1>1. /\ Acting("master") /\ ~fresh' /\ outcome' = "go"
        /\ UNCHANGED <<resyncing, cause, call, closed, outcome>>
    BY DEF EnterSegment, DeclineMaster, EnterCluster, EnterRetained, Acted, recovery, Acting,
           Draining
  <1>2. /\ Draining /\ events # << >> /\ pendOpen \in OpenMaster
        /\ NodeRef = NameOf(pendOpen) /\ pendOpen.size = Node.size /\ pendOpen.id = Node.id
    BY <1>1, MasterInHand
  <1>3. /\ Mirrors(retaining, Entered, segment)
        /\ retaining \in Seq(NodeName) /\ Entered \in Seq(OpenMaster)
    BY <1>2, DrainingIsLive, ListTypes
  <1>4. CASE EnterSegment
    <2>1. /\ segment = NoNode /\ Node.id = "Segment" /\ segment' = NodeRef /\ Descend
          /\ retaining' = Append(retaining, NodeRef) /\ cluster' = cluster
      BY <1>4 DEF EnterSegment
    <2>2. segment'.id = "Segment"
      BY <2>1 DEF NodeRef
    <2>3. Mirrors(retaining', Append(Entered, pendOpen), segment')
      BY <1>2, <1>3, <2>1, MirrorSegment
    <2> QED BY <1>1, <1>2, <2>1, <2>2, <2>3, DescendEnters, ActRest
  <1>5. CASE EnterCluster
    <2>1. /\ segment # NoNode /\ Node.id = "Cluster" /\ segment' = segment /\ Descend
          /\ retaining' = Append(retaining, NodeRef) /\ cluster' = NodeRef
      BY <1>5 DEF EnterCluster
    <2>2. cluster'.id = "Cluster"
      BY <2>1 DEF NodeRef
    <2>3. Mirrors(retaining', Append(Entered, pendOpen), segment')
      BY <1>2, <1>3, <2>1, MirrorInside
    <2> QED BY <1>1, <1>2, <2>1, <2>2, <2>3, DescendEnters, ActRest
  <1>6. CASE EnterRetained
    <2>1. /\ segment # NoNode /\ segment' = segment /\ cluster' = cluster /\ Descend
          /\ retaining' = Append(retaining, NodeRef)
      BY <1>6 DEF EnterRetained
    <2>2. Mirrors(retaining', Append(Entered, pendOpen), segment')
      BY <1>2, <1>3, <2>1, MirrorInside
    <2> QED BY <1>1, <1>2, <2>1, <2>2, DescendEnters, ActRest
  <1>7. CASE DeclineMaster /\ Node.size = UnknownSize
    <2>1. /\ segment = NoNode /\ segment' = segment /\ cluster' = cluster /\ Descend
          /\ retaining' = Append(retaining, NoNode)
      BY <1>7 DEF DeclineMaster
    <2>2. Mirrors(retaining', Append(Entered, pendOpen), segment')
      BY <1>2, <1>3, <2>1, MirrorOutside
    <2> QED BY <1>1, <1>2, <2>1, <2>2, DescendEnters, ActRest
  <1>8. CASE DeclineMaster /\ Node.size # UnknownSize
    <2>1. /\ segment' = segment /\ cluster' = cluster /\ SkipSubtree /\ retaining' = retaining
      BY <1>8 DEF DeclineMaster
    <2>2. /\ decision' = "skipSubtree"
          /\ UNCHANGED <<p, open, pending, pendOpen, finalized, events>>
      BY <2>1 DEF SkipSubtree
    <2>3. pending = "master" /\ Entered = open /\ Met = Append(open, pendOpen)
      BY <1>1, MasterInHand
    <2>4. Entered' = Entered /\ Met' = Met
      BY <1>1, <2>2, <2>3 DEF Entered, Met, EndInHand
    <2>5. Decided'
      BY <1>2, <1>8, <2>2 DEF Decided
    <2>6. Rising(Met', p'.pos)
      BY <2>2, <2>4 DEF FullInv, Tracking
    <2> QED BY <1>1, <1>2, <1>3, <2>1, <2>2, <2>4, <2>5, <2>6, ActRest
  <1> QED BY <1>4, <1>5, <1>6, <1>7, <1>8

\* A leaf in hand, and one whose payload was asked for, is none of the masters.
LEMMA LeafTracks ==
  ASSUME FullInv, DropLeaf \/ AskBlock \/ ElideLeaf \/ AskLeaf \/ TakeBlock \/ TakeLeaf
  PROVE  Tracking'
  <1>1. /\ Draining /\ events # << >>
        /\ UNCHANGED <<resyncing, cause, call, closed, retaining, segment, cluster>>
        /\ outcome' = "go" \/ (outcome' = "Content" /\ asked' = "none")
        /\ outcome = "go" /\ ~fresh' /\ ~EndInHand
    <2>1. CASE DropLeaf \/ AskBlock \/ ElideLeaf \/ AskLeaf
      <3>1. Acting("leaf")
        BY <2>1 DEF DropLeaf, AskBlock, ElideLeaf, AskLeaf, RetainedLeaf
      <3>2. events # << >>
        BY <3>1 DEF Acting, FullInv, Tracking, NodeMatches
      <3> QED BY <2>1, <3>1, <3>2 DEF DropLeaf, AskBlock, ElideLeaf, AskLeaf, Acted, Acting,
                                      Draining, recovery, EndInHand
    <2>2. CASE TakeBlock \/ TakeLeaf
      <3>1. Draining /\ asked # "none" /\ fresh' = fresh
        BY <2>2 DEF TakeBlock, TakeLeaf, Taking
      <3>2. ~fresh
        BY <3>1 DEF FullInv, Tracking, NodeMatches
      <3>4. events # << >>
        BY <3>1 DEF FullInv, Tracking, Ruled
      <3> QED BY <2>2, <3>1, <3>2, <3>4 DEF TakeBlock, TakeLeaf, Taking, Draining,
                                                recovery, EndInHand
    <2> QED BY <2>1, <2>2
  <1>2. /\ UNCHANGED <<open, pending, pendOpen, finalized, events>>
        /\ p' = p \/ (p' = StepOver(p) /\ PayloadResult(p) = "ok")
        /\ UNCHANGED decision \/ held = "leaf"
    BY DEF DropLeaf, AskBlock, ElideLeaf, AskLeaf, TakeBlock, TakeLeaf, Taking, SkipLeaf,
           Payload, vars
  <1>3. pending # "master"
    <2>1. held = "leaf" => pending = "leaf"
      BY DEF FullInv, CursorInv, HeldIsPending
    <2>2. AskBlock \/ AskLeaf => fresh /\ Node.ev = "leaf"
      BY DEF AskBlock, AskLeaf, RetainedLeaf, Acting
    <2>3. AskBlock \/ AskLeaf => pending = "leaf"
      BY <2>2 DEF FullInv, Tracking, NodeMatches
    <2>4. DropLeaf \/ ElideLeaf \/ TakeBlock \/ TakeLeaf => held = "leaf"
      BY DEF DropLeaf, ElideLeaf, TakeBlock, TakeLeaf, Taking, SkipLeaf, Payload
    <2> QED BY <2>1, <2>3, <2>4
  <1>4. Entered = open /\ Met = open /\ Entered' = open /\ Met' = open
    BY <1>1, <1>2, <1>3 DEF Entered, Met, EndInHand
  <1>5. p.pos \in Nat /\ p'.pos \in Nat /\ p.pos <= p'.pos
    <2>1. p.pos \in Nat /\ p.current.size \in Extent
      BY DEF FullInv, CursorInv, TypeOK, ParserState, ElementCtx
    <2> QED BY <1>2, <2>1 DEF StepOver, At, PayloadResult, Extent
  <1>6. Rising(Met', p'.pos)
    BY <1>4, <1>5, ListTypes, RisingLater
  <1>7. Decided'
    BY <1>2, <1>3 DEF Decided
  <1>8. Mirrors(retaining', Entered', segment')
    BY <1>1, <1>4, DrainingIsLive
  <1> QED BY <1>1, <1>2, <1>6, <1>7, <1>8, ActRest

\* A drain that waits for a payload.
LEMMA AwaitTracks ==
  ASSUME FullInv, AwaitPayload
  PROVE  Tracking'
  <1>1. /\ Draining /\ asked # "none" /\ outcome' = "ok"
        /\ UNCHANGED <<vars, recovery, content, call, fresh, closed>>
    BY DEF AwaitPayload
  <1>2. ~fresh
    BY <1>1 DEF FullInv, Tracking, NodeMatches
  <1>3. events # << >>
    BY <1>1 DEF FullInv, Tracking, Ruled
  <1>4. /\ UNCHANGED <<p, open, pending, decision, pendOpen, finalized, events, resyncing, cause,
                       retaining, segment, cluster, asked, call, closed, fresh>>
    BY <1>1 DEF vars, recovery, content
  <1>5. Entered' = Entered /\ Met' = Met
    BY <1>2, <1>4 DEF Entered, Met, EndInHand
  <1>6. Decided' /\ Rising(Met', p'.pos)
    BY <1>4, <1>5 DEF FullInv, Tracking, Decided
  <1>7. Mirrors(retaining', Entered', segment')
    BY <1>1, <1>4, <1>5, DrainingIsLive
  <1> QED BY <1>1, <1>2, <1>3, <1>4, <1>6, <1>7, ActRest

\* The entry on top is the ending master's.
LEMMA EndFindsItsEntry ==
  ASSUME FullInv, Acting("end")
  PROVE  /\ Draining /\ events # << >> /\ pending = "none"
         /\ Popped
         /\ Top(retaining) = IF segment = NoNode THEN NoNode ELSE NodeRef
         /\ NodeRef # NoNode
         /\ Mirrors(Pop(retaining), open, IF Top(retaining) = segment THEN NoNode ELSE segment)
  <1>1. /\ Draining /\ fresh /\ Node.ev = "end" /\ events # << >> /\ pending = "none"
        /\ EndedMaster \in OpenMaster
    BY DEF Acting, FullInv, Tracking, NodeMatches
  <1>2. Entered = Append(open, EndedMaster)
    BY <1>1 DEF Entered, EndInHand
  <1>3. Mirrors(retaining, Append(open, EndedMaster), segment) /\ retaining \in Seq(NodeName)
    BY <1>1, <1>2, DrainingIsLive
  <1>4. Rising(Append(open, EndedMaster), p.pos) /\ open \in Seq(OpenMaster)
    BY <1>2, ListTypes
  <1>5. NameOf(EndedMaster) = NodeRef
    BY DEF NameOf, EndedMaster, NodeRef
  <1>6. /\ retaining # << >>
        /\ Top(retaining) = IF segment = NoNode THEN NoNode ELSE NodeRef
        /\ Mirrors(Pop(retaining), open, IF Top(retaining) = segment THEN NoNode ELSE segment)
    BY <1>1, <1>3, <1>4, <1>5, MirrorPop
  <1>7. NodeRef # NoNode /\ NodeRef.id = Node.id
    BY <1>1, <1>5, NamesAreNames DEF NodeRef
  <1> QED BY <1>1, <1>6, <1>7 DEF Popped

\* The end of a master pops it off both lists.
LEMMA EndTracks ==
  ASSUME FullInv, End
  PROVE  Tracking'
  <1>1. Acting("end") /\ (EndCluster \/ EndSegment \/ EndOther)
    BY EndFindsItsEntry DEF End
  <1>2. /\ UNCHANGED <<vars, resyncing, cause, call, closed, outcome, asked>> /\ ~fresh'
        /\ retaining' = Pop(retaining) /\ outcome = "go"
    BY <1>1 DEF EndCluster, EndSegment, EndOther, Acted, recovery, Acting, Draining
  <1>3. /\ Draining /\ events # << >> /\ pending = "none" /\ NodeRef # NoNode
        /\ Top(retaining) = IF segment = NoNode THEN NoNode ELSE NodeRef
        /\ Mirrors(Pop(retaining), open, IF Top(retaining) = segment THEN NoNode ELSE segment)
    BY <1>1, EndFindsItsEntry
  <1>4. UNCHANGED <<p, open, pending, decision, pendOpen, finalized, events>>
    BY <1>2 DEF vars
  <1>5. Entered' = open /\ Met' = open /\ Decided'
    BY <1>2, <1>3, <1>4 DEF Entered, Met, EndInHand, Decided
  <1>6. Rising(Met', p'.pos)
    <2>1. Rising(Entered, p.pos) /\ open \in Seq(OpenMaster)
      BY ListTypes
    <2>2. fresh /\ Node.ev = "end" /\ EndedMaster \in OpenMaster
      BY <1>1 DEF Acting, FullInv, Tracking, NodeMatches
    <2>3. Entered = Append(open, EndedMaster)
      BY <2>2 DEF Entered, EndInHand
    <2> QED BY <1>4, <1>5, <2>1, <2>2, <2>3, RisingUnder
  <1>7. CASE EndSegment
    <2>1. Top(retaining) = segment /\ segment' = NoNode /\ cluster' = NoNode
      BY <1>7 DEF EndSegment
    <2>2. Mirrors(retaining', Entered', segment')
      BY <1>2, <1>3, <1>5, <2>1
    <2> QED BY <1>2, <1>3, <1>4, <1>5, <1>6, <2>1, <2>2, ActRest
  <1>8. CASE EndCluster \/ EndOther
    <2>1. segment' = segment /\ cluster' \in {cluster, NoNode}
      BY <1>8 DEF EndCluster, EndOther
    <2>2. segment # NoNode => Top(retaining) # segment
      <3>1. CASE EndCluster
        <4>1. Top(retaining) = cluster /\ cluster # NoNode
          BY <3>1 DEF EndCluster
        <4>2. cluster.id = "Cluster" /\ (segment # NoNode => segment.id = "Segment")
          BY <4>1 DEF FullInv, Tracking, Ruled
        <4> QED BY <4>1, <4>2
      <3>2. CASE EndOther
        BY <1>3, <3>2 DEF EndOther
      <3> QED BY <1>8, <3>1, <3>2
    <2>3. Mirrors(retaining', Entered', segment')
      BY <1>2, <1>3, <1>5, <2>1, <2>2
    <2> QED BY <1>2, <1>3, <1>4, <1>5, <1>6, <2>1, <2>3, ActRest
  <1> QED BY <1>1, <1>7, <1>8

-----------------------------------------------------------------------------
(* Calls.                                                                  *)

\* Finalize resolves, at most, and goes forward, at most; a failure it finds is the
\* input's.
LEMMA FinalizeMoves ==
  ASSUME CursorInv, Decided, Finalize
  PROVE  /\ finalized'
         /\ \/ UNCHANGED <<open, pending, decision, pendOpen>>
            \/ open' = ResolvedOpen /\ Settled
         /\ p.pos \in Nat /\ p'.pos \in Nat /\ p.pos <= p'.pos
         /\ err' \in {"none"} \cup Failure
  <1> DEFINE blocked == ResolveResult = "NeedMoreData"
             q    == IF blocked THEN p ELSE ResolvedParser
             peek == PeekResult(doc, q)
             r    == FinalizeEOFResult(doc, q)
  <1>1. err = "none" /\ finalized'
    BY DEF Finalize
  <1>2. ResolveResult \in {"ok", "NeedMoreData"}
    BY <1>1, SkipsCarryOut
  <1>3. p.pos \in Nat /\ q.pos \in Nat /\ p.pos <= q.pos
    <2>1. p.pos \in Nat
      BY DEF CursorInv, TypeOK, ParserState
    <2> QED BY <1>1, <1>2, <2>1, ResolveGoesForward
  <1>4. peek \in {"ok", "EndMaster", "NeedMoreData", "CurrentPending"} \cup Malformed
    BY PeekNames
  <1>5. peek # "CurrentPending" \/ blocked
    <2>1. ~blocked => ~HasCurrent(q)
      BY <1>1, <1>2, Resolving DEF Quiet
    <2> HIDE DEF q, blocked
    <2> QED BY <2>1 DEF PeekResult, HeaderResult, HeaderOutcome, VINTResult
  <1>6. r \in {"ok", "CurrentPending"} \cup Malformed \cup Incomplete
    BY EOFNames
  <1>7. r # "CurrentPending" \/ (~blocked /\ peek # "NeedMoreData")
    <2>1. CASE blocked
      <3>1. ShortPayload(p)
        BY <1>1, <2>1, Resolving
      <3> QED BY <2>1, <3>1 DEF FinalizeEOFResult
    <2>2. CASE ~blocked /\ peek = "NeedMoreData"
      <3>1. Quiet(q) /\ doc \in DOMAIN Documents
        BY <1>1, <1>2, <2>2, Resolving DEF CursorInv, TypeOK
      <3>2. r \in {"ok"} \cup Incomplete
        BY <2>2, <3>1, EndOfInputAnswers
      <3> QED BY <3>2 DEF Incomplete
    <2> QED BY <2>1, <2>2
  <1>8. FinalizeEOF(q).pos = q.pos
    BY DEF FinalizeEOF, At
  <1>9. /\ p' = IF (blocked \/ peek = "NeedMoreData") /\ r = "ok" THEN FinalizeEOF(q) ELSE q
        /\ IF blocked
           THEN UNCHANGED <<open, pending, decision, pendOpen>>
           ELSE open' = ResolvedOpen /\ Settled
        /\ IF ~blocked /\ peek \in {"ok", "EndMaster"}
           THEN err' = err
           ELSE IF ~blocked /\ peek # "NeedMoreData"
           THEN err' = peek
           ELSE IF r = "ok" THEN err' = err ELSE err' = r
    BY <1>2 DEF Finalize, Fail
  <1> HIDE DEF blocked, q, peek, r
  <1>10. p'.pos = q.pos
    BY <1>8, <1>9
  <1>11. err' \in {"none"} \cup Failure
    BY <1>1, <1>4, <1>5, <1>6, <1>7, <1>9 DEF Failure
  <1> QED BY <1>1, <1>3, <1>9, <1>10, <1>11

\* Outside a drain there is no node in hand.
LEMMA NothingInHand ==
  ASSUME FullInv, ~Draining
  PROVE  ~fresh
  BY DEF FullInv, Tracking, NodeMatches

\* Calls that leave the cursor as it is.
LEMMA IdleCallsTrack ==
  ASSUME FullInv,
         CallAfterFailure \/ CallAfterFinalize \/ FeedReturns \/ FeedFails
         \/ FinalizeUnrecovered \/ FinalizeReturns \/ FinalizeFails
  PROVE  Tracking'
  <1>1. /\ UNCHANGED <<p, open, pending, decision, pendOpen, events, finalized, asked, fresh,
                       retaining>>
        /\ call' = "idle" /\ outcome' = "ok" /\ ~Draining
    BY DEF CallAfterFailure, CallAfterFinalize, FeedReturns, FeedFails, FinalizeUnrecovered,
           FinalizeReturns, FinalizeFails, Return, vars, content, Draining, Accepting
  <1>2. ~fresh /\ ~fresh'
    BY <1>1, NothingInHand
  <1>3. Entered' = Entered /\ Met' = Met
    BY <1>1, <1>2 DEF Entered, Met, EndInHand
  <1>4. NodeMatches' /\ Decided' /\ Rising(Met', p'.pos)
    BY <1>1, <1>2, <1>3 DEF NodeMatches, FullInv, Tracking, Decided
  <1>5. CASE CallAfterFailure \/ CallAfterFinalize \/ FeedReturns \/ FeedFails
    <2>1. /\ UNCHANGED <<resyncing, cause, closed, segment, cluster>>
          /\ call \in {"idle", "feed", "resume"}
      BY <1>5 DEF CallAfterFailure, CallAfterFinalize, FeedReturns, FeedFails, recovery, content
    <2>2. Ruled'
      BY <1>1, <2>1 DEF FullInv, Tracking, Ruled
    <2>3. Live' => Live
      BY <1>1, <2>1 DEF Live
    <2> QED BY <1>1, <1>3, <1>4, <2>1, <2>2, <2>3 DEF FullInv, Tracking
  <1>6. CASE FinalizeUnrecovered \/ FinalizeReturns \/ FinalizeFails
    <2>1. closed'
      BY <1>6 DEF FullInv, Tracking, Ruled, FinalizeUnrecovered, FinalizeReturns, FinalizeFails
    <2>2. resyncing' = FALSE
      BY <1>6 DEF FullInv, HeldInv, FinalizeUnrecovered, FinalizeReturns, FinalizeFails, recovery
    <2>3. segment' \in {segment, NoNode} /\ cluster' \in {cluster, NoNode}
      BY <1>6 DEF FinalizeUnrecovered, FinalizeReturns, FinalizeFails, ResetSegment
    <2>4. Ruled'
      BY <1>1, <2>1, <2>2, <2>3 DEF FullInv, Tracking, Ruled
    <2>5. ~Live'
      BY <1>1, <2>1 DEF Live
    <2> QED BY <1>4, <2>4, <2>5 DEF Tracking
  <1> QED BY <1>5, <1>6

\* Bytes arrive.
LEMMA FeedTracks ==
  ASSUME FullInv, NEW n, AsmFeed(n)
  PROVE  Tracking'
  <1>1. /\ UNCHANGED <<open, pending, decision, pendOpen, events, finalized, asked, fresh,
                       retaining, segment, cluster, resyncing, cause, closed>>
        /\ call' = (IF resyncing THEN "scan" ELSE "feed")
        /\ outcome' \in {"go", "ok"} /\ ~closed /\ ~Draining /\ p'.pos = p.pos
    BY DEF AsmFeed, FeedChunk, Feed, recovery, Draining, Accepting
  <1>2. ~fresh /\ ~fresh'
    BY <1>1, NothingInHand
  <1>3. Entered' = Entered /\ Met' = Met
    BY <1>1, <1>2 DEF Entered, Met, EndInHand
  <1>4. NodeMatches' /\ Decided' /\ Rising(Met', p'.pos)
    BY <1>1, <1>2, <1>3 DEF NodeMatches, FullInv, Tracking, Decided
  <1>5. Ruled'
    BY <1>1 DEF FullInv, Tracking, Ruled
  <1>6. Live' => Live
    BY <1>1 DEF Live
  <1> QED BY <1>1, <1>3, <1>4, <1>5, <1>6 DEF FullInv, Tracking

\* The assembler is finalized.
LEMMA FinalizeTracks ==
  ASSUME FullInv, AsmFinalize
  PROVE  Tracking'
  <1>1. /\ Finalize /\ call' = "finalize" /\ closed' /\ asked' = "none"
        /\ UNCHANGED <<resyncing, cause, retaining, segment, cluster, fresh>>
        /\ ~resyncing /\ ~closed /\ ~Draining
    BY DEF AsmFinalize, recovery, Accepting, Draining
  <1>2. /\ \/ UNCHANGED <<open, pending, decision, pendOpen>>
           \/ open' = ResolvedOpen /\ Settled
        /\ p.pos \in Nat /\ p'.pos \in Nat /\ p.pos <= p'.pos
    BY <1>1, FinalizeMoves DEF FullInv, Tracking
  <1>3. ~fresh /\ ~fresh'
    BY <1>1, NothingInHand
  <1>4. ResolvedOpen = Entered
    BY <1>3, ResolvedIsEntered DEF FullInv, Tracking
  <1>5. /\ Entered' = Entered /\ Met' \in {Met, Entered} /\ Decided'
    <2>1. CASE UNCHANGED <<open, pending, decision, pendOpen>>
      BY <1>3, <2>1 DEF Entered, Met, EndInHand, FullInv, Tracking, Decided
    <2>2. CASE open' = ResolvedOpen /\ Settled
      <3>1. pending' = "none"
        BY <2>2 DEF Settled
      <3> QED BY <1>3, <1>4, <2>2, <3>1 DEF Entered, Met, EndInHand, Decided
    <2> QED BY <1>2, <2>1, <2>2
  <1>6. Rising(Met', p'.pos)
    <2>1. Rising(Met, p.pos)
      BY DEF FullInv, Tracking
    <2> QED BY <1>2, <1>5, <2>1, ListTypes, RisingLater
  <1>7. NodeMatches' /\ Ruled'
    BY <1>1, <1>3 DEF NodeMatches, FullInv, Tracking, Ruled
  <1>8. Mirrors(retaining', Entered', segment')
    BY <1>1, <1>5 DEF FullInv, Tracking, Live
  <1> QED BY <1>5, <1>6, <1>7, <1>8 DEF Tracking

-----------------------------------------------------------------------------
(* Recovery.                                                               *)

\* A cursor that begins has entered nothing.
LEMMA NewCursorIsEmpty ==
  ASSUME FullInv, NEW at, NewCursorAt(at), ~fresh'
  PROVE  /\ Decided' /\ Entered' = << >> /\ Met' = << >> /\ Rising(Met', p'.pos)
         /\ events' = << >> /\ finalized' = FALSE
  <1>1. pending' = "none" /\ open' = << >> /\ events' = << >> /\ finalized' = FALSE
    BY DEF NewCursorAt
  <1>2. Entered' = << >> /\ Met' = << >>
    BY <1>1 DEF Entered, Met, EndInHand
  <1>3. Rising(Met', p'.pos)
    BY <1>2, EmptySeq DEF Rising
  <1> QED BY <1>1, <1>2, <1>3 DEF Decided

\* The cursor is abandoned for a recovery.
LEMMA RecoverTracks ==
  ASSUME FullInv, FeedRecovers
  PROVE  Tracking'
  <1>1. /\ call \in {"feed", "resume"} /\ outcome \in Malformed \cup Incomplete
        /\ NewCursorAt(p.pos) /\ call' = "scan" /\ outcome' = "ok" /\ cause' = outcome
        /\ resyncing' = TRUE /\ UNCHANGED <<fresh, closed, asked, segment, cluster>>
    BY DEF FeedRecovers, RecordFailure, Structural
  <1>2. ~Draining /\ outcome \notin {"go", "ok", "Content"}
    BY <1>1 DEF Draining, Malformed, Incomplete
  <1>3. ~fresh /\ ~fresh' /\ asked = "none" /\ outcome \in Malformed /\ ~closed
    BY <1>1, <1>2, NothingInHand DEF FullInv, Tracking, Ruled
  <1>4. Decided' /\ Rising(Met', p'.pos) /\ finalized' = FALSE
    BY <1>1, <1>3, NewCursorIsEmpty
  <1>5. NodeMatches' /\ Ruled' /\ ~Live'
    BY <1>1, <1>3, <1>4 DEF NodeMatches, FullInv, Tracking, Ruled, Live
  <1> QED BY <1>4, <1>5 DEF Tracking

\* Where parsing resumes there is nothing open, for the assembler or the cursor.
LEMMA ResumeTracks ==
  ASSUME FullInv, ScanFinds
  PROVE  Tracking'
  <1>1. /\ call = "scan" /\ \E at : NewCursorAt(at)
        /\ call' = "resume" /\ outcome' = "go" /\ cause' = "none" /\ asked' = "none"
        /\ resyncing' = FALSE /\ ~fresh' /\ closed' = closed
        /\ segment' = NoNode /\ cluster' = NoNode /\ retaining' = << >>
    BY DEF ScanFinds, ResetSegment
  <1>2. ~closed
    BY <1>1 DEF FullInv, Tracking, Ruled
  <1>3. Decided' /\ Entered' = << >> /\ Rising(Met', p'.pos) /\ finalized' = FALSE
    BY <1>1, NewCursorIsEmpty
  <1>4. NodeMatches' /\ Ruled'
    BY <1>1, <1>2, <1>3 DEF NodeMatches, Ruled
  <1>5. Mirrors(retaining', Entered', segment')
    <2>1. Len(<< >>) = 0
      BY EmptySeq
    <2>2. MirrorsFrom(0, << >>, << >>, NoNode)
      BY <2>1 DEF MirrorsFrom
    <2> QED BY <1>1, <1>3, <2>1, <2>2 DEF Mirrors
  <1> QED BY <1>3, <1>4, <1>5 DEF Tracking

\* compactTail keeps a tail of the bytes.
LEMMA CompactionGoesForward ==
  ASSUME CursorInv
  PROVE  Compacted \in Nat /\ p.pos <= Compacted /\ Compacted <= p.fed /\ p.pos \in Nat
  <1>1. p.pos \in Nat /\ p.fed \in Nat /\ p.pos <= p.fed
    BY DEF CursorInv, TypeOK, ParserState, WithinInput
  <1> QED BY <1>1 DEF Compacted, IDBytes

\* A scan that finds nothing drops bytes that no one will look at again.
LEMMA StarveTracks ==
  ASSUME FullInv, ScanStarves
  PROVE  Tracking'
  <1>1. /\ p' = At(p, Compacted, << >>, NoElement) /\ call = "scan"
        /\ call' = "idle" /\ outcome' = "ok"
        /\ UNCHANGED <<open, pending, decision, pendOpen, events, finalized, asked, fresh,
                       retaining, segment, cluster, resyncing, cause, closed>>
    BY DEF ScanStarves, Return, recovery
  <1>2. ~fresh /\ ~fresh' /\ resyncing /\ ~closed
    BY <1>1, NothingInHand DEF FullInv, HeldInv, Tracking, Ruled, Draining
  <1>3. Entered' = Entered /\ Met' = Met
    BY <1>1, <1>2 DEF Entered, Met, EndInHand
  <1>4. p'.pos = Compacted
    BY <1>1 DEF At
  <1>5. Rising(Met', p'.pos)
    <2>1. Rising(Met, p.pos)
      BY DEF FullInv, Tracking
    <2> QED BY <1>3, <1>4, <2>1, ListTypes, RisingLater, CompactionGoesForward DEF FullInv
  <1>6. NodeMatches' /\ Decided' /\ Ruled' /\ ~Live'
    BY <1>1, <1>2 DEF NodeMatches, FullInv, Tracking, Decided, Ruled, Live
  <1> QED BY <1>5, <1>6 DEF Tracking

\* Tracking is kept by every step.
LEMMA TrackingStep ==
  ASSUME FullInv, CursorInv', [AsmNext]_asmVars
  PROVE  Tracking'
  <1>1. CASE Drain
    <2>1. CASE EnterSegment \/ DeclineMaster \/ EnterCluster \/ EnterRetained
      BY <2>1, MasterTracks
    <2>2. CASE DropLeaf \/ AskBlock \/ ElideLeaf \/ AskLeaf \/ TakeBlock \/ TakeLeaf
      BY <2>2, LeafTracks
    <2> QED BY <1>1, <2>1, <2>2, PullTracks, AwaitTracks, EndTracks DEF Drain
  <1>2. CASE \/ CallAfterFailure \/ CallAfterFinalize \/ FeedReturns \/ FeedFails
             \/ FinalizeUnrecovered \/ FinalizeReturns \/ FinalizeFails
    BY <1>2, IdleCallsTrack
  <1>3. CASE \E n \in 1..Documents[doc].len : AsmFeed(n)
    BY <1>3, FeedTracks
  <1>4. CASE AsmFinalize \/ FeedRecovers \/ ScanFinds \/ ScanStarves
    BY <1>4, FinalizeTracks, RecoverTracks, ResumeTracks, StarveTracks
  <1>5. CASE UNCHANGED asmVars
    <2>1. UNCHANGED <<p, open, pending, decision, pendOpen, events, finalized, fresh, asked,
                      retaining, segment, cluster, resyncing, cause, closed, call, outcome>>
      BY <1>5 DEF asmVars, vars, recovery, content, control
    <2>2. EndedMaster' = EndedMaster /\ Node' = Node
      BY <2>1 DEF EndedMaster, Node
    <2>3. Entered' = Entered /\ Met' = Met
      BY <2>1, <2>2 DEF Entered, Met, EndInHand
    <2>4. NodeMatches' /\ Decided' /\ Ruled' /\ (Live' <=> Live)
      BY <2>1, <2>2 DEF FullInv, Tracking, NodeMatches, Draining, Decided, Ruled, Live
    <2> QED BY <2>1, <2>3, <2>4 DEF FullInv, Tracking
  <1> QED BY <1>1, <1>2, <1>3, <1>4, <1>5 DEF AsmNext, Running

\* An assembler begins with empty lists.
LEMMA TrackingInit == AsmInit => Tracking
  <1> SUFFICES ASSUME AsmInit PROVE Tracking
    OBVIOUS
  <1>1. /\ pending = "none" /\ open = << >> /\ ~fresh /\ segment = NoNode /\ cluster = NoNode
        /\ asked = "none" /\ ~finalized /\ call = "idle" /\ ~resyncing /\ retaining = << >>
    BY DEF AsmInit, Init
  <1>2. Entered = << >> /\ Met = << >>
    BY <1>1 DEF Entered, Met, EndInHand
  <1>3. Len(<< >>) = 0
    BY EmptySeq
  <1>4. MirrorsFrom(0, << >>, << >>, NoNode)
    BY <1>3 DEF MirrorsFrom
  <1>5. NodeMatches /\ Decided /\ Ruled
    BY <1>1 DEF NodeMatches, Decided, Ruled
  <1> QED BY <1>1, <1>2, <1>3, <1>4, <1>5 DEF Tracking, Rising, Mirrors

\* The two lists agree level by level wherever OpenMirror looks.
LEMMA ListsAgree == FullInv => OpenMirror
  <1> SUFFICES ASSUME FullInv, ~resyncing, ~fresh, closed => call = "finalize"
               PROVE  LET entered == IF pending = "master" /\ decision = "descend"
                                     THEN Append(open, pendOpen) ELSE open
                          Inside(i) == segment # NoNode /\ \E j \in 1..i : retaining[j] = segment
                      IN /\ Len(retaining) = Len(entered)
                         /\ \A i \in DOMAIN retaining :
                              retaining[i] = IF Inside(i)
                                             THEN [id |-> entered[i].id, offset |-> entered[i].offset]
                                             ELSE NoNode
    BY DEF OpenMirror
  <1>1. Entered = IF pending = "master" /\ decision = "descend" THEN Append(open, pendOpen) ELSE open
    BY DEF Entered, EndInHand
  <1>2. Mirrors(retaining, Entered, segment)
    BY DEF FullInv, Tracking, Live
  <1>3. PICK k \in 0..Len(retaining) : MirrorsFrom(k, retaining, Entered, segment)
    BY <1>2 DEF Mirrors
  <1>4. Len(retaining) = Len(Entered) /\ Len(retaining) \in Nat
        /\ DOMAIN retaining = 1..Len(retaining)
    BY <1>2, LenProperties DEF Mirrors, FullInv, AsmTypeOK
  <1>5. ASSUME NEW i \in 1..Len(retaining)
        PROVE  retaining[i] = IF segment # NoNode /\ \E j \in 1..i : retaining[j] = segment
                              THEN [id |-> Entered[i].id, offset |-> Entered[i].offset]
                              ELSE NoNode
    <2>1. CASE segment = NoNode
      BY <1>3, <1>4, <2>1 DEF MirrorsFrom
    <2>2. CASE segment # NoNode /\ i <= k
      <3>1. \A j \in 1..i : retaining[j] = NoNode
        BY <1>3, <2>2 DEF MirrorsFrom
      <3> QED BY <2>2, <3>1
    <2>3. CASE segment # NoNode /\ i > k
      <3>1. segment = retaining[k + 1] /\ k + 1 \in 1..i /\ i \in (k + 1)..Len(retaining)
        BY <1>3, <1>4, <2>3 DEF MirrorsFrom
      <3>2. retaining[i] = [id |-> Entered[i].id, offset |-> Entered[i].offset]
        BY <1>3, <3>1 DEF MirrorsFrom
      <3> QED BY <2>3, <3>1, <3>2
    <2> QED BY <1>4, <2>1, <2>2, <2>3
  <1> HIDE DEF Entered
  <1> QED BY <1>1, <1>4, <1>5

-----------------------------------------------------------------------------
(* The cursor.                                                             *)

\* Where a scan resumes is in the bytes kept, at or after the failure, and after the
\* place where parsing resumed before.
LEMMA ResumesAhead ==
  ASSUME CursorInv, failOffset \in Nat, lastResync \in Offset, Candidates # {},
         NEW at, at = CHOOSE o \in Candidates : \A c \in Candidates : o <= c
  PROVE  at \in Nat /\ p.pos <= at /\ at <= p.fed /\ failOffset <= at /\ lastResync < at
  <1>1. doc \in DOMAIN Documents /\ p.fed \in Nat /\ p.pos \in Nat
    BY DEF CursorInv, TypeOK, ParserState
  <1>2. Candidates \in SUBSET Nat
    BY <1>1, OptionsAssumption DEF Candidates, TopLevel
  <1>3. at \in Candidates
    BY <1>2, LeastOf
  <1>4. at \in Nat /\ at >= ResumeFrom /\ at >= p.pos /\ at + IDBytes <= p.fed
    BY <1>2, <1>3 DEF Candidates
  <1>5. ResumeFrom \in Nat /\ failOffset <= ResumeFrom /\ lastResync < ResumeFrom
    BY DEF ResumeFrom, Offset
  <1> QED BY <1>1, <1>4, <1>5 DEF IDBytes, Offset

\* A new cursor, over bytes that are there, satisfies the cursor's invariant.
LEMMA NewCursorInv ==
  ASSUME CursorInv, NEW at \in Nat, at <= p.fed, NewCursorAt(at)
  PROVE  CursorInv'
  <1>1. /\ p' = [fed |-> p.fed, pos |-> at, stack |-> << >>, current |-> NoElement]
        /\ open' = << >> /\ closes' = << >> /\ pending' = "none" /\ decision' = "none"
        /\ pendOpen' = NoMaster /\ finalized' = FALSE /\ eofRun' = FALSE /\ err' = "none"
        /\ held' = "none" /\ events' = << >> /\ UNCHANGED <<doc, skipped>>
    BY DEF NewCursorAt
  <1>2. p.fed \in Nat /\ doc \in DOMAIN Documents /\ skipped \subseteq Nat
    BY DEF CursorInv, TypeOK, ParserState
  <1>3. p' \in ParserState
    BY <1>1, <1>2, NoElementType, EmptySeq DEF ParserState
  <1>4. TypeOK'
    BY <1>1, <1>2, <1>3, EmptySeq DEF TypeOK, Decision
  <1>5. ~EOFReported'
    BY <1>1, EmptySeq DEF EOFReported
  <1>6. WithinInput' /\ StackMirror' /\ PendingMatches' /\ HeldIsPending' /\ EOFRunDrained'
    BY <1>1, EmptySeq DEF WithinInput, StackMirror, SameMasters, PendingMatches, HasCurrent,
                          NoElement, HeldIsPending, EOFRunDrained
  <1> QED BY <1>4, <1>5, <1>6 DEF CursorInv, CleanEOF

\* While a recovery looks for its next boundary there is no cursor, and what stands
\* for it is as a new one: only bytes are kept.
CursorIsNew ==
  resyncing =>
    /\ p.stack = << >> /\ p.current = NoElement /\ open = << >> /\ closes = << >>
    /\ pending = "none" /\ decision = "none" /\ pendOpen = NoMaster
    /\ ~finalized /\ ~eofRun /\ err = "none" /\ held = "none" /\ events = << >>

\* Compaction moves the start of a cursor that has yet to be made.
LEMMA CompactionKeepsInv ==
  ASSUME FullInv, CursorIsNew, ScanStarves
  PROVE  CursorInv' /\ CursorIsNew'
  <1>1. /\ p' = At(p, Compacted, << >>, NoElement)
        /\ UNCHANGED <<doc, open, pending, decision, pendOpen, closes, finalized, eofRun, err,
                       held, events, skipped>>
        /\ call = "scan" /\ resyncing' = resyncing
    BY DEF ScanStarves, recovery
  <1>2. Compacted \in Nat /\ Compacted <= p.fed
    BY CompactionGoesForward DEF FullInv
  <1>3. resyncing
    BY <1>1 DEF FullInv, HeldInv
  <1>4. NewCursorAt(Compacted)
    BY <1>1, <1>3 DEF CursorIsNew, NewCursorAt, At
  <1>5. CursorIsNew'
    BY <1>1, <1>3 DEF CursorIsNew, At
  <1> QED BY <1>2, <1>4, <1>5, NewCursorInv DEF FullInv

\* The steps of the drain are the cursor's, or leave it alone.
LEMMA DrainMovesTheCursor ==
  ASSUME Drain
  PROVE  [Next]_vars /\ UNCHANGED recovery /\ call' = call /\ Draining
  <1>1. CASE Pull
    BY <1>1 DEF Pull, Next, Consume
  <1>2. CASE EnterSegment
    BY <1>2 DEF EnterSegment, Acting, Acted, Next, Consume
  <1>3. CASE DeclineMaster
    BY <1>3 DEF DeclineMaster, Acting, Acted, Next, Consume
  <1>4. CASE EnterCluster
    BY <1>4 DEF EnterCluster, Acting, Acted, Next, Consume
  <1>5. CASE EnterRetained
    BY <1>5 DEF EnterRetained, Acting, Acted, Next, Consume
  <1>6. CASE DropLeaf
    BY <1>6 DEF DropLeaf, Acting, Acted, Next, Consume
  <1>7. CASE AskBlock
    BY <1>7 DEF AskBlock, RetainedLeaf, Acting, Acted
  <1>8. CASE ElideLeaf
    BY <1>8 DEF ElideLeaf, RetainedLeaf, Acting, Acted, Next, Consume
  <1>9. CASE AskLeaf
    BY <1>9 DEF AskLeaf, RetainedLeaf, Acting, Acted
  <1>10. CASE AwaitPayload
    BY <1>10 DEF AwaitPayload
  <1>11. CASE TakeBlock
    BY <1>11 DEF TakeBlock, Taking, Next, Consume
  <1>12. CASE TakeLeaf
    BY <1>12 DEF TakeLeaf, Taking, Next, Consume
  <1>13. CASE End
    BY <1>13 DEF End, Acting, EndCluster, EndSegment, EndOther, EndMismatch, Acted
  <1> QED BY <1>1, <1>2, <1>3, <1>4, <1>5, <1>6, <1>7, <1>8, <1>9, <1>10, <1>11, <1>12, <1>13
          DEF Drain

\* The calls that leave the cursor as it is.
LEMMA IdleCallsLeaveTheCursor ==
  ASSUME CallAfterFailure \/ CallAfterFinalize \/ FeedReturns \/ FeedFails
         \/ FinalizeUnrecovered \/ FinalizeReturns \/ FinalizeFails
  PROVE  UNCHANGED vars /\ (resyncing' => resyncing)
  BY DEF CallAfterFailure, CallAfterFinalize, FeedReturns, FeedFails, FinalizeUnrecovered,
         FinalizeReturns, FinalizeFails, recovery

\* The cursor's invariant is kept by every step of the assembler: by those that are
\* the cursor's own, and by those that put a new cursor in its place.
LEMMA CursorStep ==
  ASSUME FullInv, CursorIsNew, [AsmNext]_asmVars
  PROVE  CursorInv' /\ CursorIsNew'
  <1>1. CASE Drain
    <2>1. [Next]_vars /\ resyncing' = resyncing /\ ~resyncing
      BY <1>1, DrainMovesTheCursor DEF recovery, Draining, FullInv, HeldInv
    <2> QED BY <2>1, NextInv DEF FullInv, CursorIsNew
  <1>2. CASE \/ CallAfterFailure \/ CallAfterFinalize \/ FeedReturns \/ FeedFails
             \/ FinalizeUnrecovered \/ FinalizeReturns \/ FinalizeFails
    <2>1. UNCHANGED vars /\ (resyncing' => resyncing)
      BY <1>2, IdleCallsLeaveTheCursor
    <2>2. CursorInv'
      BY <2>1, NextInv DEF FullInv
    <2> QED BY <2>1, <2>2 DEF vars, CursorIsNew
  <1>3. ASSUME NEW n \in 1..Documents[doc].len, AsmFeed(n)
        PROVE  CursorInv' /\ CursorIsNew'
    <2>1. FeedChunk(n) /\ UNCHANGED recovery
      BY <1>3 DEF AsmFeed
    <2>2. CursorIsNew'
      BY <2>1 DEF FeedChunk, Feed, recovery, CursorIsNew
    <2> QED BY <2>1, <2>2, FeedStep DEF FullInv
  <1>4. CASE AsmFinalize
    <2>1. Finalize /\ ~resyncing'
      BY <1>4 DEF AsmFinalize, recovery
    <2> QED BY <2>1, FinalizeStep DEF FullInv, CursorIsNew
  <1>5. CASE FeedRecovers
    <2>1. NewCursorAt(p.pos)
      BY <1>5 DEF FeedRecovers, RecordFailure
    <2>2. p.pos \in Nat /\ p.pos <= p.fed
      BY DEF FullInv, CursorInv, TypeOK, ParserState, WithinInput
    <2>3. CursorIsNew'
      BY <2>1 DEF NewCursorAt, CursorIsNew
    <2> QED BY <2>1, <2>2, <2>3, NewCursorInv DEF FullInv
  <1>6. CASE ScanFinds
    <2>1. PICK at : /\ at = CHOOSE o \in Candidates : \A c \in Candidates : o <= c
                    /\ NewCursorAt(at) /\ Candidates # {} /\ resyncing' = FALSE
      BY <1>6 DEF ScanFinds
    <2>2. at \in Nat /\ at <= p.fed
      BY <2>1, ResumesAhead DEF FullInv, AsmTypeOK
    <2> QED BY <2>1, <2>2, NewCursorInv DEF FullInv, CursorIsNew
  <1>7. CASE ScanStarves
    BY <1>7, CompactionKeepsInv
  <1>8. CASE UNCHANGED asmVars
    <2>1. UNCHANGED vars /\ resyncing' = resyncing
      BY <1>8 DEF asmVars, recovery
    <2>2. CursorInv'
      BY <2>1, NextInv DEF FullInv
    <2> QED BY <2>1, <2>2 DEF vars, CursorIsNew
  <1> QED BY <1>1, <1>2, <1>3, <1>4, <1>5, <1>6, <1>7, <1>8 DEF AsmNext, Running

-----------------------------------------------------------------------------
(* Types.                                                                  *)

\* A Segment's tree: the retained elements by their offset.
TreeOK(tree) ==
  /\ DOMAIN tree \subseteq Nat
  /\ \A o \in DOMAIN tree : tree[o] \in [parent : Offset, payload : {"none", "held", "elided"}]

FirstFailures == [why : {"none"} \cup Failure, recovering : BOOLEAN]

\* The types of what is assembled, of what controls the calls, and of the recovery.
ContentOK ==
  /\ retaining \in Seq(NodeName)
  /\ segment \in NodeName /\ cluster \in NodeName
  /\ blocks \in Seq(Nat) /\ dropped \in Seq(Nat)
  /\ waiting \in FragmentType
  /\ asked \in {"none", "block", "retain"}
  /\ TreeOK(retained)
  /\ emitted \in Seq(FragmentType)

ControlOK ==
  /\ call \in {"idle", "feed", "scan", "resume", "finalize"}
  /\ outcome \in {"go", "ok"} \cup Failure
  /\ fresh \in BOOLEAN /\ closed \in BOOLEAN
  /\ delivered \in Seq(FragmentType)
  /\ failure \in {"none"} \cup Failure
  /\ result \in {"none", "AlreadyFinalized"} \cup Failure
  /\ failed \in FirstFailures

RecoveryOK ==
  /\ resyncing \in BOOLEAN
  /\ cause \in {"none"} \cup Malformed
  /\ failOffset \in Nat /\ lastResync \in Offset
  /\ notified \in Seq([at : Nat, skipped : Nat, cause : Malformed])

\* Together they are all the types.
LEMMA TypeParts == AsmTypeOK <=> opts \in AssemblerOptions /\ ContentOK /\ ControlOK /\ RecoveryOK
  BY DEF AsmTypeOK, ContentOK, ControlOK, RecoveryOK, TreeOK, FirstFailures

LEMMA TypePartsNext ==
  ASSUME opts' \in AssemblerOptions, ContentOK', ControlOK', RecoveryOK'
  PROVE  AsmTypeOK'
  BY DEF AsmTypeOK, ContentOK, ControlOK, RecoveryOK, TreeOK, FirstFailures

\* The fragment that is none is one.
LEMMA NoFragmentType == NoFragment \in FragmentType
  <1>1. << >> \in Seq(Nat)
    BY EmptySeq
  <1> QED BY <1>1 DEF NoFragment, FragmentType, Offset

\* What is visible of a tree is in it.
LEMMA ViewType ==
  ASSUME NEW tree, DOMAIN tree \subseteq Nat, NEW seg
  PROVE  ViewOf(tree, seg) \in SUBSET Nat
  BY DEF ViewOf

\* A fragment stays one when its view is set.
LEMMA ViewedType ==
  ASSUME NEW f \in FragmentType, NEW v \in SUBSET Nat
  PROVE  [f EXCEPT !.view = v] \in FragmentType
  BY DEF FragmentType

\* What is handed over was a fragment.
LEMMA HandOverType ==
  ASSUME NEW f \in FragmentType, NEW tree, DOMAIN tree \subseteq Nat,
         emitted \in Seq(FragmentType), HandOver(f, tree)
  PROVE  emitted' \in Seq(FragmentType) /\ waiting' \in FragmentType
  <1> DEFINE g == [f EXCEPT !.view = ViewOf(tree, f.segment)]
  <1>1. g \in FragmentType
    BY ViewType, ViewedType
  <1>2. emitted' = (IF f = NoFragment THEN emitted ELSE Append(emitted, g)) /\ waiting' = NoFragment
    BY DEF HandOver
  <1> HIDE DEF g
  <1> QED BY <1>1, <1>2, NoFragmentType

LEMMA SettleType ==
  ASSUME NEW id, NEW r, NEW f \in FragmentType, NEW tree, DOMAIN tree \subseteq Nat,
         emitted \in Seq(FragmentType), Settle(id, r, f, tree)
  PROVE  emitted' \in Seq(FragmentType) /\ waiting' \in FragmentType
  <1>1. HandOver(f, tree) \/ (waiting' = f /\ UNCHANGED emitted)
    BY DEF Settle
  <1> QED BY <1>1, HandOverType

LEMMA ReleaseType ==
  ASSUME ContentOK, Release
  PROVE  emitted' \in Seq(FragmentType) /\ waiting' \in FragmentType
  BY HandOverType DEF ContentOK, TreeOK, Release

\* The node in hand names an element of the document.
LEMMA NodeType ==
  ASSUME FullInv, events # << >>
  PROVE  NodeRef \in NodeName /\ Node.offset \in Nat /\ NodeRef.offset = Node.offset
  <1>1. events \in Seq(Event)
    BY DEF FullInv, CursorInv, TypeOK
  <1>2. Node \in Event
    BY <1>1, PopFacts DEF Node
  <1> QED BY <1>2 DEF Event, NodeRef, NodeName, Offset

\* The parent of what is retained next.
LEMMA InnermostType ==
  ASSUME NEW r \in Seq(NodeName)
  PROVE  Innermost(r) \in NodeName
  <1>1. NoNode \in NodeName
    BY DEF NoNode, NodeName, Offset
  <1> QED BY <1>1, PopFacts DEF Innermost

LEMMA RetainType ==
  ASSUME FullInv, events # << >>, NEW payload \in {"none", "held", "elided"}
  PROVE  TreeOK(Retain(NodeRef, payload))
  <1>1. retaining \in Seq(NodeName) /\ TreeOK(retained)
    BY TypeParts DEF FullInv, ContentOK
  <1>2. Innermost(retaining).offset \in Offset /\ NodeRef.offset \in Nat
    BY <1>1, InnermostType, NodeType DEF NodeName
  <1> QED BY <1>1, <1>2 DEF TreeOK, Retain

LEMMA SetPayloadType ==
  ASSUME TreeOK(retained), NEW o, NEW payload \in {"none", "held", "elided"}
  PROVE  TreeOK(SetPayload(o, payload))
  BY DEF TreeOK, SetPayload

\* A step of the drain: the content's types are what is left to show, and how it goes on.
LEMMA DrainTypeRest ==
  ASSUME FullInv, Drain, ContentOK', outcome' \in {"go", "ok"} \cup Failure, fresh' \in BOOLEAN
  PROVE  AsmTypeOK'
  <1>1. UNCHANGED <<opts, recovery, call, failure, closed, delivered, result, failed>>
    BY DEF Drain, Pull, EnterSegment, DeclineMaster, EnterCluster, EnterRetained, DropLeaf,
           AskBlock, ElideLeaf, AskLeaf, AwaitPayload, TakeBlock, TakeLeaf, End, EndMismatch,
           EndCluster, EndSegment, EndOther, Acted
  <1>2. opts \in AssemblerOptions /\ ControlOK /\ RecoveryOK
    BY TypeParts DEF FullInv
  <1>3. ControlOK'
    BY <1>1, <1>2 DEF ControlOK
  <1>4. RecoveryOK' /\ opts' \in AssemblerOptions
    BY <1>1, <1>2 DEF RecoveryOK, recovery
  <1> QED BY <1>3, <1>4, TypePartsNext

\* What a pull says is one of the stream's failures.
LEMMA PullTypes ==
  ASSUME FullInv, CursorInv', Pull
  PROVE  AsmTypeOK'
  <1>1. UNCHANGED content
    BY DEF Pull
  <1>2. ContentOK'
    BY <1>1, TypeParts DEF content, ContentOK, FullInv
  <1>3. outcome' \in {"go", "ok"} \cup Failure /\ fresh' \in BOOLEAN
    <2>1. NothingNew \/ \E e : events' = Append(events, e) /\ Reports(e)
      BY PullReports DEF Pull, FullInv, Tracking
    <2>2. CASE NothingNew
      BY <2>2 DEF Pull, NothingNew
    <2>3. ASSUME NEW e, events' = Append(events, e), Reports(e)
          PROVE  outcome' \in {"go", "ok"} \cup Failure /\ fresh' \in BOOLEAN
      <3>1. /\ fresh' = (e.ev \in {"master", "leaf", "end"})
            /\ outcome' = IF e.ev = "fail" THEN e.why ELSE IF e.ev = "eof" THEN "ok" ELSE "go"
        BY <2>3, PullSees
      <3>2. e.ev = "fail" => e.why \in Failure
        BY <2>3 DEF Reports, Concluded, Presented, EndedTop, Failure
      <3> QED BY <3>1, <3>2
    <2> QED BY <2>1, <2>2, <2>3
  <1> QED BY <1>2, <1>3, DrainTypeRest DEF Drain

\* The assembler's answers to a master.
LEMMA MasterTypes ==
  ASSUME FullInv, EnterSegment \/ DeclineMaster \/ EnterCluster \/ EnterRetained
  PROVE  AsmTypeOK'
  <1>1. /\ Acting("master") /\ ~fresh' /\ fresh' = FALSE /\ outcome' = outcome
        /\ UNCHANGED <<asked, dropped>>
    BY DEF EnterSegment, DeclineMaster, EnterCluster, EnterRetained, Acted
  <1>2. events # << >>
    BY <1>1, MasterInHand
  <1>3. NodeRef \in NodeName
    BY <1>2, NodeType
  <1>4. ContentOK /\ outcome \in {"go", "ok"} \cup Failure
    BY TypeParts DEF FullInv, ControlOK
  <1>5. NoNode \in NodeName
    BY DEF NoNode, NodeName, Offset
  <1>6. ASSUME EnterSegment PROVE ContentOK'
    BY <1>1, <1>3, <1>4, <1>6 DEF EnterSegment, ContentOK
  <1>7. ASSUME DeclineMaster PROVE ContentOK'
    <2>1. retaining' \in Seq(NodeName)
      <3>1. retaining' \in {retaining, Append(retaining, NoNode)}
        BY <1>7 DEF DeclineMaster
      <3>2. retaining \in Seq(NodeName)
        BY <1>4 DEF ContentOK
      <3> QED BY <1>5, <3>1, <3>2
    <2>2. UNCHANGED <<segment, cluster, blocks, waiting, retained, emitted>>
      BY <1>7 DEF DeclineMaster
    <2>3. TreeOK(retained)'
      BY <1>4, <2>2 DEF ContentOK, TreeOK
    <2> QED BY <1>1, <1>4, <2>1, <2>2, <2>3 DEF ContentOK
  <1>8. ASSUME EnterCluster PROVE ContentOK'
    <2>1. emitted' \in Seq(FragmentType) /\ waiting' \in FragmentType
      BY <1>4, <1>8, ReleaseType DEF EnterCluster
    <2> QED BY <1>1, <1>3, <1>4, <1>8, <2>1, EmptySeq DEF EnterCluster, ContentOK
  <1>9. ASSUME EnterRetained PROVE ContentOK'
    <2>1. TreeOK(retained')
      BY <1>2, <1>9, RetainType DEF EnterRetained
    <2>2. TreeOK(retained)'
      BY <2>1 DEF TreeOK
    <2> QED BY <1>1, <1>3, <1>4, <1>9, <2>2 DEF EnterRetained, ContentOK
  <1>10. ContentOK'
    BY <1>6, <1>7, <1>8, <1>9
  <1> QED BY <1>1, <1>4, <1>10, DrainTypeRest DEF Drain

\* The assembler's answers to a leaf, and the payload when it is in.
LEMMA LeafTypes ==
  ASSUME FullInv, DropLeaf \/ AskBlock \/ ElideLeaf \/ AskLeaf \/ AwaitPayload \/ TakeBlock \/ TakeLeaf
  PROVE  AsmTypeOK'
  <1>1. ContentOK /\ outcome \in {"go", "ok"} \cup Failure /\ fresh \in BOOLEAN
    BY TypeParts DEF FullInv, ControlOK
  <1>2. waiting \in FragmentType /\ DOMAIN retained \subseteq Nat /\ emitted \in Seq(FragmentType)
        /\ TreeOK(retained) /\ blocks \in Seq(Nat) /\ dropped \in Seq(Nat)
    BY <1>1 DEF ContentOK, TreeOK
  <1>3. /\ fresh' = FALSE \/ fresh' = fresh
        /\ outcome' \in {outcome, "ok", "Content"}
        /\ UNCHANGED <<retaining, segment, cluster>>
    BY DEF DropLeaf, AskBlock, ElideLeaf, AskLeaf, AwaitPayload, TakeBlock, TakeLeaf, Acted, content
  <1>4. asked' \in {"none", "block", "retain"}
    BY <1>1 DEF DropLeaf, AskBlock, ElideLeaf, AskLeaf, AwaitPayload, TakeBlock, TakeLeaf, Taking,
                content, ContentOK
  <1>5. ASSUME AskBlock \/ ElideLeaf \/ AskLeaf PROVE ContentOK'
    <2>1. Acting("leaf")
      BY <1>5 DEF AskBlock, ElideLeaf, AskLeaf, RetainedLeaf
    <2>2. events # << >>
      BY <2>1 DEF Acting, FullInv, Tracking, NodeMatches
    <2>3. retained' \in {Retain(NodeRef, "elided"), Retain(NodeRef, "none")}
      BY <1>5 DEF AskBlock, ElideLeaf, AskLeaf
    <2>4. TreeOK(retained') /\ DOMAIN retained' \subseteq Nat
      BY <2>2, <2>3, RetainType DEF TreeOK
    <2>5. emitted' \in Seq(FragmentType) /\ waiting' \in FragmentType
      BY <1>2, <1>5, <2>4, SettleType DEF AskBlock, ElideLeaf, AskLeaf
    <2>6. UNCHANGED <<blocks, dropped>>
      BY <1>5 DEF AskBlock, ElideLeaf, AskLeaf, Acted
    <2>7. TreeOK(retained)'
      BY <2>4 DEF TreeOK
    <2> QED BY <1>1, <1>3, <1>4, <2>5, <2>6, <2>7 DEF ContentOK
  <1>6. ASSUME DropLeaf \/ AwaitPayload PROVE ContentOK'
    <2>1. UNCHANGED <<blocks, dropped, waiting, emitted, retained>>
      BY <1>6 DEF DropLeaf, AwaitPayload, Acted, content
    <2>2. TreeOK(retained)'
      BY <1>2, <2>1 DEF TreeOK
    <2> QED BY <1>1, <1>3, <1>4, <2>1, <2>2 DEF ContentOK
  <1>7. ASSUME TakeBlock \/ TakeLeaf PROVE ContentOK'
    <2>1. asked # "none"
      BY <1>7 DEF TakeBlock, TakeLeaf
    <2>2. Node.offset \in Nat
      BY <2>1, NodeType DEF FullInv, Tracking, Ruled
    <2>3. blocks' \in Seq(Nat) /\ dropped' \in Seq(Nat)
      <3>1. Append(blocks, Node.offset) \in Seq(Nat) /\ Append(dropped, Node.offset) \in Seq(Nat)
        BY <1>2, <2>2
      <3>2. blocks' \in {blocks, Append(blocks, Node.offset)}
            /\ dropped' \in {dropped, Append(dropped, Node.offset)}
        BY <1>7 DEF TakeBlock, TakeLeaf
      <3> QED BY <1>2, <3>1, <3>2
    <2>4. emitted' \in Seq(FragmentType) /\ waiting' \in FragmentType
      BY <1>2, <1>7, SettleType DEF TakeBlock, TakeLeaf
    <2>5. TreeOK(retained')
      BY <1>2, <1>7, SetPayloadType DEF TakeBlock, TakeLeaf
    <2>6. TreeOK(retained)'
      BY <2>5 DEF TreeOK
    <2> QED BY <1>1, <1>3, <1>4, <2>3, <2>4, <2>6 DEF ContentOK
  <1>8. ContentOK'
    BY <1>5, <1>6, <1>7
  <1>9. outcome' \in {"go", "ok"} \cup Failure /\ fresh' \in BOOLEAN
    BY <1>1, <1>3 DEF Failure
  <1> QED BY <1>8, <1>9, DrainTypeRest DEF Drain

\* The end of a master.
LEMMA EndTypes ==
  ASSUME FullInv, End
  PROVE  AsmTypeOK'
  <1>1. ContentOK /\ outcome \in {"go", "ok"} \cup Failure
    BY TypeParts DEF FullInv, ControlOK
  <1>2. Acting("end") /\ (EndCluster \/ EndSegment \/ EndOther)
    BY EndFindsItsEntry DEF End
  <1>3. /\ fresh' = FALSE /\ outcome' = outcome /\ retaining' = Pop(retaining)
        /\ UNCHANGED <<asked, retained, dropped>>
    BY <1>2 DEF EndCluster, EndSegment, EndOther, Acted
  <1>4. retaining # << >>
    BY <1>2 DEF EndCluster, EndSegment, EndOther, Popped
  <1>5. retaining' \in Seq(NodeName)
    BY <1>1, <1>3, <1>4, PopFacts DEF ContentOK
  <1>6. NoNode \in NodeName
    BY DEF NoNode, NodeName, Offset
  <1>7. segment' \in NodeName /\ cluster' \in NodeName /\ blocks' \in Seq(Nat)
    BY <1>1, <1>2, <1>6, EmptySeq DEF EndCluster, EndSegment, EndOther, ContentOK
  <1>8. emitted' \in Seq(FragmentType) /\ waiting' \in FragmentType
    <2>1. waiting \in FragmentType /\ DOMAIN retained \subseteq Nat /\ emitted \in Seq(FragmentType)
      BY <1>1 DEF ContentOK, TreeOK
    <2>2. CASE EndCluster
      <3> DEFINE f == [segment |-> segment.offset, cluster |-> cluster.offset, blocks |-> blocks,
                       truncated |-> FALSE, view |-> {}]
      <3>1. f \in FragmentType
        BY <1>1 DEF ContentOK, FragmentType, NodeName
      <3>2. Settle(Node.id, Pop(retaining), f, retained)
        BY <2>2 DEF EndCluster
      <3> HIDE DEF f
      <3> QED BY <2>1, <3>1, <3>2, SettleType
    <2>3. CASE EndSegment
      BY <1>1, <2>3, ReleaseType DEF EndSegment
    <2>4. CASE EndOther
      BY <2>1, <2>4, SettleType DEF EndOther
    <2> QED BY <1>2, <2>2, <2>3, <2>4
  <1>9. TreeOK(retained)'
    BY <1>1, <1>3 DEF ContentOK, TreeOK
  <1>10. ContentOK'
    BY <1>1, <1>3, <1>5, <1>7, <1>8, <1>9 DEF ContentOK
  <1> QED BY <1>1, <1>3, <1>10, DrainTypeRest DEF Drain

\* What a call returns is what it was given.
LEMMA ReturnTypes ==
  ASSUME ControlOK, emitted' \in Seq(FragmentType), closed' \in BOOLEAN, fresh' = fresh,
         failure' \in {"none"} \cup Failure, resyncing \in BOOLEAN,
         NEW error \in {"none", "AlreadyFinalized"} \cup Failure, Return(error)
  PROVE  ControlOK'
  <1>1. delivered' = delivered \o emitted' /\ delivered \in Seq(FragmentType)
    BY DEF Return, ControlOK
  <1>2. delivered' \in Seq(FragmentType)
    BY <1>1, ConcatProperties
  <1>3. failed' \in FirstFailures
    BY DEF Return, ControlOK, FirstFailures
  <1> QED BY <1>2, <1>3 DEF ControlOK, Return

\* Calls that find or leave nothing to do for the content.
LEMMA IdleCallTypes ==
  ASSUME FullInv,
         CallAfterFailure \/ CallAfterFinalize \/ FeedReturns \/ FinalizeUnrecovered \/ ScanStarves
  PROVE  AsmTypeOK'
  <1>1. opts \in AssemblerOptions /\ ContentOK /\ ControlOK /\ RecoveryOK
    BY TypeParts DEF FullInv
  <1>2. /\ UNCHANGED <<opts, retaining, segment, cluster, blocks, waiting, asked, retained, dropped,
                       fresh, failure, failOffset, lastResync, notified>>
        /\ emitted' \in {emitted, << >>}
    BY DEF CallAfterFailure, CallAfterFinalize, FeedReturns, FinalizeUnrecovered, ScanStarves,
           recovery, content
  <1>3. /\ closed' = closed \/ closed' = TRUE
        /\ resyncing' = resyncing \/ resyncing' = FALSE
        /\ cause' \in {cause, "none"}
    BY DEF CallAfterFailure, CallAfterFinalize, FeedReturns, FinalizeUnrecovered, ScanStarves, recovery
  <1>4. \E error \in {"none", "AlreadyFinalized"} \cup Failure : Return(error)
    <2>1. failure \in {"none"} \cup Failure /\ (resyncing => cause \in Failure)
      BY <1>1 DEF ControlOK, FullInv, Tracking, Ruled, Failure
    <2> QED BY <2>1 DEF CallAfterFailure, CallAfterFinalize, FeedReturns, FinalizeUnrecovered,
                        ScanStarves
  <1>5. emitted \in Seq(FragmentType) /\ emitted' \in Seq(FragmentType)
    BY <1>1, <1>2, EmptySeq DEF ContentOK
  <1>6. TreeOK(retained)'
    BY <1>1, <1>2 DEF ContentOK, TreeOK
  <1>7. ContentOK'
    BY <1>1, <1>2, <1>5, <1>6 DEF ContentOK
  <1>8. RecoveryOK' /\ opts' \in AssemblerOptions
    BY <1>1, <1>2, <1>3 DEF RecoveryOK
  <1>9. closed' \in BOOLEAN /\ failure' \in {"none"} \cup Failure
    BY <1>1, <1>2, <1>3 DEF ControlOK
  <1>10. ControlOK'
    BY <1>1, <1>2, <1>4, <1>5, <1>9, ReturnTypes DEF RecoveryOK
  <1> QED BY <1>7, <1>8, <1>10, TypePartsNext

\* The Cluster that the input was cut in is a fragment too.
LEMMA FinalizeFailsTypes ==
  ASSUME ContentOK, FinalizeFails
  PROVE  /\ emitted' \in Seq(FragmentType) /\ waiting' \in FragmentType
         /\ segment' \in NodeName /\ cluster' \in NodeName /\ blocks' \in Seq(Nat)
  <1> DEFINE last == [waiting EXCEPT !.view = ViewOf(retained, waiting.segment)]
             before == IF waiting = NoFragment THEN emitted ELSE Append(emitted, last)
             cut == [segment |-> segment.offset, cluster |-> cluster.offset, blocks |-> blocks,
                     truncated |-> TRUE, view |-> ViewOf(retained, segment.offset)]
  <1>1. DOMAIN retained \subseteq Nat /\ emitted \in Seq(FragmentType) /\ waiting \in FragmentType
        /\ segment \in NodeName /\ cluster \in NodeName /\ blocks \in Seq(Nat)
    BY DEF ContentOK, TreeOK
  <1>2. last \in FragmentType
    BY <1>1, ViewType, ViewedType
  <1>3. cut \in FragmentType
    <2>1. ViewOf(retained, segment.offset) \in SUBSET Nat
      BY <1>1, ViewType
    <2> QED BY <1>1, <2>1 DEF FragmentType, NodeName
  <1>4. /\ waiting' = NoFragment
        /\ \/ emitted' = before /\ UNCHANGED <<segment, cluster, blocks>>
           \/ emitted' = Append(before, cut) /\ ResetSegment
    BY DEF FinalizeFails
  <1> HIDE DEF last, cut
  <1>5. before \in Seq(FragmentType) /\ Append(before, cut) \in Seq(FragmentType)
    BY <1>1, <1>2, <1>3
  <1>6. NoNode \in NodeName
    BY DEF NoNode, NodeName, Offset
  <1> QED BY <1>1, <1>4, <1>5, <1>6, NoFragmentType, EmptySeq DEF ResetSegment

\* Calls that end with what was held handed over.
LEMMA LastCallTypes ==
  ASSUME FullInv, FeedFails \/ FinalizeReturns \/ FinalizeFails
  PROVE  AsmTypeOK'
  <1>1. opts \in AssemblerOptions /\ ContentOK /\ ControlOK /\ RecoveryOK
    BY TypeParts DEF FullInv
  <1>2. UNCHANGED <<opts, recovery, retaining, asked, retained, dropped, fresh, closed>>
    BY DEF FeedFails, FinalizeReturns, FinalizeFails
  <1>3. /\ emitted' \in Seq(FragmentType) /\ waiting' \in FragmentType
        /\ segment' \in NodeName /\ cluster' \in NodeName /\ blocks' \in Seq(Nat)
    <2>1. CASE FinalizeFails
      BY <1>1, <2>1, FinalizeFailsTypes
    <2>2. CASE FeedFails \/ FinalizeReturns
      <3>1. UNCHANGED <<segment, cluster, blocks>> /\ (Release \/ UNCHANGED <<emitted, waiting>>)
        BY <2>2 DEF FeedFails, FinalizeReturns
      <3> QED BY <1>1, <3>1, ReleaseType DEF ContentOK
    <2> QED BY <2>1, <2>2
  <1>4. outcome \in {"go", "ok"} \cup Failure /\ failure \in {"none"} \cup Failure
        /\ closed \in BOOLEAN
    BY <1>1 DEF ControlOK
  <1>5. \E error \in {"none", "AlreadyFinalized"} \cup Failure : Return(error)
    BY <1>4 DEF FeedFails, FinalizeReturns, FinalizeFails
  <1>6. failure' \in {"none"} \cup Failure
    BY <1>4 DEF FeedFails, FinalizeReturns, FinalizeFails
  <1>7. ControlOK'
    BY <1>1, <1>2, <1>3, <1>4, <1>5, <1>6, ReturnTypes DEF RecoveryOK
  <1>8. TreeOK(retained)'
    BY <1>1, <1>2 DEF ContentOK, TreeOK
  <1>9. ContentOK'
    BY <1>1, <1>2, <1>3, <1>8 DEF ContentOK
  <1>10. RecoveryOK' /\ opts' \in AssemblerOptions
    BY <1>1, <1>2 DEF RecoveryOK, recovery
  <1> QED BY <1>7, <1>9, <1>10, TypePartsNext

\* Calls that begin.
LEMMA BeginTypes ==
  ASSUME FullInv, AsmFinalize \/ \E n \in 1..Documents[doc].len : AsmFeed(n)
  PROVE  AsmTypeOK'
  <1>1. opts \in AssemblerOptions /\ ContentOK /\ ControlOK /\ RecoveryOK
    BY TypeParts DEF FullInv
  <1>2. /\ UNCHANGED <<opts, recovery, retaining, segment, cluster, blocks, waiting, dropped, fresh,
                       failure, result, delivered, failed>>
        /\ closed' = closed \/ closed' = TRUE
        /\ emitted' = << >> /\ asked' \in {asked, "none"}
        /\ call' \in {"feed", "scan", "finalize"}
    BY DEF AsmFinalize, AsmFeed
  <1>3. outcome' \in {"go", "ok"} \cup Failure
    <2>1. CASE AsmFinalize
      <3>1. err' \in {"none"} \cup Failure
        BY <2>1, FinalizeMoves DEF AsmFinalize, FullInv, Tracking
      <3> QED BY <2>1, <3>1 DEF AsmFinalize
    <2> QED BY <2>1 DEF AsmFeed
  <1>4. TreeOK(retained)'
    <2>1. retained' \in {retained, SetPayload(Node.offset, "elided")}
      BY DEF AsmFinalize, AsmFeed
    <2>2. TreeOK(retained')
      BY <1>1, <2>1, SetPayloadType DEF ContentOK
    <2> QED BY <2>2 DEF TreeOK
  <1>5. ContentOK'
    BY <1>1, <1>2, <1>4, EmptySeq DEF ContentOK
  <1>6. ControlOK'
    BY <1>1, <1>2, <1>3 DEF ControlOK
  <1>7. RecoveryOK' /\ opts' \in AssemblerOptions
    BY <1>1, <1>2 DEF RecoveryOK, recovery
  <1> QED BY <1>5, <1>6, <1>7, TypePartsNext

\* A recovery that begins.
LEMMA RecoverTypes ==
  ASSUME FullInv, FeedRecovers
  PROVE  AsmTypeOK'
  <1>1. opts \in AssemblerOptions /\ ContentOK /\ ControlOK /\ RecoveryOK
    BY TypeParts DEF FullInv
  <1>2. /\ UNCHANGED <<opts, lastResync, notified, retaining, segment, cluster, blocks, asked,
                       retained, dropped, fresh, failure, closed, result, delivered, failed>>
        /\ Release /\ failOffset' = p.pos /\ cause' = outcome /\ resyncing' = TRUE
        /\ call' = "scan" /\ outcome' = "ok"
    BY DEF FeedRecovers, RecordFailure
  <1>3. outcome \in Malformed
    <2>1. outcome \in Malformed \cup Incomplete /\ call \in {"feed", "resume"}
      BY DEF FeedRecovers, Structural
    <2> QED BY <2>1 DEF FullInv, Tracking, Ruled, Malformed, Incomplete
  <1>4. p.pos \in Nat
    BY DEF FullInv, CursorInv, TypeOK, ParserState
  <1>5. emitted' \in Seq(FragmentType) /\ waiting' \in FragmentType
    BY <1>1, <1>2, ReleaseType
  <1>6. TreeOK(retained)'
    BY <1>1, <1>2 DEF ContentOK, TreeOK
  <1>7. ContentOK'
    BY <1>1, <1>2, <1>5, <1>6 DEF ContentOK
  <1>8. ControlOK' /\ RecoveryOK' /\ opts' \in AssemblerOptions
    BY <1>1, <1>2, <1>3, <1>4 DEF ControlOK, RecoveryOK
  <1> QED BY <1>7, <1>8, TypePartsNext

\* What a scan that finds a boundary tells notify of.
LEMMA ScanSays ==
  ASSUME FullInv, ScanFinds
  PROVE  \E at \in Nat :
           /\ lastResync' = at /\ lastResync < at /\ failOffset <= at /\ failOffset \in Nat
           /\ cause \in Malformed
           /\ notified' = Append(notified, [at |-> at, skipped |-> at - failOffset, cause |-> cause])
  <1>1. PICK at : /\ at = CHOOSE o \in Candidates : \A c \in Candidates : o <= c
                  /\ Candidates # {} /\ lastResync' = at
                  /\ notified' = Append(notified, [at |-> at, skipped |-> at - failOffset,
                                                   cause |-> cause])
    BY DEF ScanFinds
  <1>2. failOffset \in Nat /\ lastResync \in Offset
    BY DEF FullInv, AsmTypeOK
  <1>3. at \in Nat /\ failOffset <= at /\ lastResync < at
    BY <1>1, <1>2, ResumesAhead DEF FullInv
  <1>4. cause \in Malformed
    BY DEF ScanFinds, FullInv, HeldInv, Tracking, Ruled
  <1> QED BY <1>1, <1>2, <1>3, <1>4

\* A recovery that ends.
LEMMA ResumeTypes ==
  ASSUME FullInv, ScanFinds
  PROVE  AsmTypeOK'
  <1>1. opts \in AssemblerOptions /\ ContentOK /\ ControlOK /\ RecoveryOK
    BY TypeParts DEF FullInv
  <1>2. /\ UNCHANGED <<opts, failOffset, waiting, retained, emitted, dropped, failure, closed,
                       result, delivered, failed>>
        /\ segment' = NoNode /\ cluster' = NoNode /\ blocks' = << >> /\ retaining' = << >>
        /\ asked' = "none" /\ fresh' = FALSE /\ call' = "resume" /\ outcome' = "go"
        /\ resyncing' = FALSE /\ cause' = "none"
    BY DEF ScanFinds, ResetSegment
  <1>3. PICK at \in Nat :
           /\ lastResync' = at /\ failOffset <= at /\ failOffset \in Nat /\ cause \in Malformed
           /\ notified' = Append(notified, [at |-> at, skipped |-> at - failOffset, cause |-> cause])
    BY ScanSays
  <1>4. notified' \in Seq([at : Nat, skipped : Nat, cause : Malformed])
    <2> DEFINE n == [at |-> at, skipped |-> at - failOffset, cause |-> cause]
    <2>1. n \in [at : Nat, skipped : Nat, cause : Malformed]
      BY <1>3
    <2> HIDE DEF n
    <2> QED BY <1>1, <1>3, <2>1 DEF RecoveryOK, n
  <1>5. NoNode \in NodeName
    BY DEF NoNode, NodeName, Offset
  <1>6. TreeOK(retained)'
    BY <1>1, <1>2 DEF ContentOK, TreeOK
  <1>7. ContentOK'
    BY <1>1, <1>2, <1>5, <1>6, EmptySeq DEF ContentOK
  <1>8. ControlOK' /\ RecoveryOK' /\ opts' \in AssemblerOptions
    BY <1>1, <1>2, <1>3, <1>4 DEF ControlOK, RecoveryOK, Offset
  <1> QED BY <1>7, <1>8, TypePartsNext

-----------------------------------------------------------------------------
(* The invariant, and what follows from it.                                *)

\* Every step keeps the types.
LEMMA TypeStep ==
  ASSUME FullInv, CursorInv', [AsmNext]_asmVars
  PROVE  AsmTypeOK'
  <1>1. CASE Drain
    <2>1. CASE EnterSegment \/ DeclineMaster \/ EnterCluster \/ EnterRetained
      BY <2>1, MasterTypes
    <2>2. CASE DropLeaf \/ AskBlock \/ ElideLeaf \/ AskLeaf \/ AwaitPayload \/ TakeBlock \/ TakeLeaf
      BY <2>2, LeafTypes
    <2> QED BY <1>1, <2>1, <2>2, PullTypes, EndTypes DEF Drain
  <1>2. CASE CallAfterFailure \/ CallAfterFinalize \/ FeedReturns \/ FinalizeUnrecovered \/ ScanStarves
    BY <1>2, IdleCallTypes
  <1>3. CASE FeedFails \/ FinalizeReturns \/ FinalizeFails
    BY <1>3, LastCallTypes
  <1>4. CASE AsmFinalize \/ \E n \in 1..Documents[doc].len : AsmFeed(n)
    BY <1>4, BeginTypes
  <1>5. CASE FeedRecovers \/ ScanFinds
    BY <1>5, RecoverTypes, ResumeTypes
  <1>6. CASE UNCHANGED asmVars
    BY <1>6 DEF asmVars, recovery, content, control, FullInv, AsmTypeOK
  <1> QED BY <1>1, <1>2, <1>3, <1>4, <1>5, <1>6 DEF AsmNext, Running

\* An assembler begins with its types.
LEMMA TypeInit == AsmInit => AsmTypeOK
  <1> SUFFICES ASSUME AsmInit PROVE AsmTypeOK
    OBVIOUS
  <1>1. NoNode \in NodeName
    BY DEF NoNode, NodeName, Offset
  <1>2. opts \in AssemblerOptions
    BY OptionsAssumption DEF AsmInit
  <1>3. DOMAIN retained = {}
    <2>1. Len(<< >>) = 0 /\ DOMAIN << >> = 1..Len(<< >>)
      BY EmptySeq, LenProperties
    <2> QED BY <2>1 DEF AsmInit
  <1> QED BY <1>1, <1>2, <1>3, NoFragmentType, EmptySeq DEF AsmInit, AsmTypeOK, Offset, Failure,
          NotFailed

\* The recoveries so far, and the last of them.
Advancing ==
  /\ RecoveryAdvances
  /\ notified # << >> => Top(notified).at = lastResync

\* A recovery appended after the last keeps them in order.
LEMMA AdvanceStep ==
  ASSUME FullInv, Advancing, [AsmNext]_asmVars
  PROVE  Advancing'
  <1>1. CASE ScanFinds
    <2>1. PICK at \in Nat :
            /\ lastResync' = at /\ lastResync < at /\ failOffset <= at /\ failOffset \in Nat
            /\ notified' = Append(notified, [at |-> at, skipped |-> at - failOffset, cause |-> cause])
      BY <1>1, ScanSays
    <2> DEFINE n == [at |-> at, skipped |-> at - failOffset, cause |-> cause]
    <2>2. notified \in Seq([at : Nat, skipped : Nat, cause : Malformed])
      BY DEF FullInv, AsmTypeOK
    <2>3. n.at = at /\ n.skipped = at - failOffset
      OBVIOUS
    <2> HIDE DEF n
    <2>4. /\ Len(notified') = Len(notified) + 1 /\ Len(notified) \in Nat
          /\ DOMAIN notified = 1..Len(notified) /\ DOMAIN notified' = 1..(Len(notified) + 1)
          /\ notified'[Len(notified) + 1] = n
          /\ \A i \in 1..Len(notified) : notified'[i] = notified[i]
      BY <2>1, <2>2, AppendProperties, LenProperties DEF n
    <2>5. ASSUME NEW i \in DOMAIN notified'
          PROVE  /\ notified'[i].skipped >= 0
                 /\ i > 1 => notified'[i].at > notified'[i - 1].at
      <3>1. CASE i \in 1..Len(notified)
        <4>1. i > 1 => i - 1 \in 1..Len(notified)
          BY <2>4, <3>1
        <4> QED BY <2>4, <3>1, <4>1 DEF Advancing, RecoveryAdvances
      <3>2. CASE i = Len(notified) + 1
        <4>1. i > 1 => /\ notified'[i - 1] = notified[Len(notified)] /\ notified # << >>
          BY <2>4, <3>2, EmptySeq
        <4>2. i > 1 => notified'[i - 1].at = lastResync
          BY <4>1 DEF Advancing, Top
        <4>3. notified'[i].at = at /\ notified'[i].skipped = at - failOffset
          BY <2>3, <2>4, <3>2
        <4> QED BY <2>1, <4>2, <4>3
      <3> QED BY <2>4, <2>5, <3>1, <3>2
    <2>6. Top(notified') = n
      BY <2>4 DEF Top
    <2>7. Top(notified)' = n
      BY <2>6 DEF Top
    <2> QED BY <2>1, <2>3, <2>5, <2>7 DEF Advancing, RecoveryAdvances
  <1>2. CASE ~ScanFinds
    <2>1. UNCHANGED <<notified, lastResync>>
      <3>1. CASE Drain
        BY <3>1, DrainMovesTheCursor DEF recovery
      <3>2. CASE ~Drain
        BY <1>2, <3>2 DEF AsmNext, Running, AsmFeed, AsmFinalize, FinalizeUnrecovered,
             CallAfterFailure, CallAfterFinalize, ScanStarves, FeedReturns, FeedRecovers,
             RecordFailure, FeedFails, FinalizeReturns, FinalizeFails, recovery, asmVars
      <3> QED BY <3>1, <3>2
    <2> QED BY <2>1 DEF Advancing, RecoveryAdvances, Top
  <1> QED BY <1>1, <1>2

\* A failure that was told is latched, or is that of a recovery given up at the end.
Latched == ~failed.recovering /\ failure # "none" /\ failure = failed.why

GivenUp == failed.recovering /\ closed /\ failure = "none"

\* Once a failure was told no call gets to work, and none was latched and not told.
LastWord ==
  /\ failed = NotFailed => failure = "none"
  /\ failed # NotFailed => call = "idle" /\ (Latched \/ GivenUp)

\* What is no failure is told of no failure.
LEMMA NoFailureTold ==
  ASSUME NEW error, error \notin Failure, Return(error)
  PROVE  failed' = failed /\ call' = "idle"
  BY DEF Return

\* The first failure told is the error returned.
LEMMA FailureTold ==
  ASSUME NEW error \in Failure, Return(error), failed = NotFailed
  PROVE  /\ call' = "idle" /\ failed' # NotFailed
         /\ failed'.why = error /\ failed'.recovering = resyncing
  <1>1. error # "none"
    BY DEF Failure, Malformed, Incomplete
  <1>2. failed' = [why |-> error, recovering |-> resyncing]
    BY DEF Return
  <1>3. call' = "idle" /\ failed'.why = error /\ failed'.recovering = resyncing
    BY <1>2 DEF Return
  <1>4. NotFailed.why = "none"
    BY DEF NotFailed
  <1> QED BY <1>1, <1>3, <1>4

\* An assembler that accepts a call has told of no failure.
LEMMA AcceptingIsClean ==
  ASSUME LastWord, Accepting
  PROVE  failed = NotFailed
  BY DEF LastWord, Latched, GivenUp, Accepting

\* No call begins or goes on once a failure was told.
LEMMA LastWordStep ==
  ASSUME FullInv, LastWord, [AsmNext]_asmVars
  PROVE  LastWord'
  <1>1. "none" \notin Failure /\ "AlreadyFinalized" \notin Failure
    BY DEF Failure, Malformed, Incomplete
  <1>2. CASE Drain
    <2>1. UNCHANGED <<failure, failed>>
      BY <1>2 DEF Drain, Pull, EnterSegment, DeclineMaster, EnterCluster, EnterRetained, DropLeaf,
           AskBlock, ElideLeaf, AskLeaf, AwaitPayload, TakeBlock, TakeLeaf, End, EndMismatch,
           EndCluster, EndSegment, EndOther, Acted
    <2>2. call # "idle"
      BY <1>2, DrainMovesTheCursor DEF Draining
    <2> QED BY <2>1, <2>2 DEF LastWord
  <1>3. CASE FeedReturns \/ ScanStarves \/ FinalizeReturns
    <2>1. call # "idle" /\ failure' = failure /\ failed' = failed
      BY <1>1, <1>3, NoFailureTold DEF FeedReturns, ScanStarves, FinalizeReturns
    <2> QED BY <2>1 DEF LastWord
  <1>4. CASE CallAfterFinalize
    <2>1. call' = "idle" /\ failed' = failed /\ UNCHANGED <<failure, closed>>
      BY <1>1, <1>4, NoFailureTold DEF CallAfterFinalize
    <2> QED BY <2>1 DEF LastWord, Latched, GivenUp
  <1>5. CASE CallAfterFailure
    <2>1. failed # NotFailed
      BY <1>5 DEF CallAfterFailure, LastWord
    <2>2. call' = "idle" /\ failed' = failed /\ UNCHANGED <<failure, closed>>
      BY <1>5, <2>1 DEF CallAfterFailure, Return
    <2> QED BY <2>1, <2>2 DEF LastWord, Latched, GivenUp
  <1>6. CASE FeedFails \/ FinalizeFails
    <2>1. call # "idle" /\ ~resyncing
      BY <1>6 DEF FeedFails, FinalizeFails, FullInv, HeldInv
    <2>2. failed = NotFailed
      BY <2>1 DEF LastWord
    <2>3. outcome \in Failure /\ failure' = outcome /\ Return(outcome)
      BY <1>6 DEF FeedFails, FinalizeFails, FullInv, AsmTypeOK
    <2>4. call' = "idle" /\ failed' # NotFailed /\ failed'.why = failure' /\ failed'.recovering = resyncing
      BY <2>2, <2>3, FailureTold
    <2>5. failure' # "none"
      BY <1>1, <2>3
    <2> QED BY <2>1, <2>4, <2>5 DEF LastWord, Latched
  <1>7. CASE FinalizeUnrecovered
    <2>1. failed = NotFailed
      BY <1>7, AcceptingIsClean DEF FinalizeUnrecovered
    <2>2. resyncing /\ closed' /\ failure' = "none" /\ Return(cause)
      BY <1>7 DEF FinalizeUnrecovered, Accepting
    <2>3. cause \in Failure
      BY <2>2 DEF FullInv, Tracking, Ruled, Failure
    <2>4. call' = "idle" /\ failed' # NotFailed /\ failed'.recovering = resyncing
      BY <2>1, <2>2, <2>3, FailureTold
    <2> QED BY <2>2, <2>4 DEF LastWord, GivenUp
  <1>8. CASE AsmFinalize \/ (\E n \in 1..Documents[doc].len : AsmFeed(n))
    <2>1. failed = NotFailed
      BY <1>8, AcceptingIsClean DEF AsmFinalize, AsmFeed
    <2>2. UNCHANGED <<failure, failed>>
      BY <1>8 DEF AsmFinalize, AsmFeed
    <2> QED BY <2>1, <2>2 DEF LastWord
  <1>9. CASE FeedRecovers \/ ScanFinds
    <2>1. call # "idle" /\ UNCHANGED <<failure, failed>>
      BY <1>9 DEF FeedRecovers, RecordFailure, ScanFinds
    <2> QED BY <2>1 DEF LastWord
  <1>10. CASE UNCHANGED asmVars
    BY <1>10 DEF asmVars, control, LastWord, Latched, GivenUp
  <1> QED BY <1>2, <1>3, <1>4, <1>5, <1>6, <1>7, <1>8, <1>9, <1>10 DEF AsmNext, Running

\* The inductive invariant of the assembler.
AssemblerInv == FullInv /\ CursorIsNew /\ Advancing /\ LastWord

LEMMA AssemblerInit == AsmInit => AssemblerInv
  <1> SUFFICES ASSUME AsmInit PROVE AssemblerInv
    OBVIOUS
  <1>1. FullInv
    BY InitInv, TypeInit, HeldInit, TrackingInit DEF AsmInit, FullInv
  <1>2. CursorIsNew /\ LastWord
    BY DEF AsmInit, CursorIsNew, LastWord
  <1>3. Advancing
    <2>1. notified = << >> /\ DOMAIN << >> = 1..Len(<< >>) /\ Len(<< >>) = 0
      BY EmptySeq, LenProperties DEF AsmInit
    <2> QED BY <2>1 DEF Advancing, RecoveryAdvances
  <1> QED BY <1>1, <1>2, <1>3 DEF AssemblerInv

LEMMA AssemblerStep == AssemblerInv /\ [AsmNext]_asmVars => AssemblerInv'
  <1> SUFFICES ASSUME AssemblerInv, [AsmNext]_asmVars PROVE AssemblerInv'
    OBVIOUS
  <1>1. CursorInv' /\ CursorIsNew'
    BY CursorStep DEF AssemblerInv
  <1>2. AsmTypeOK' /\ HeldInv' /\ Tracking'
    BY <1>1, TypeStep, HeldStep, TrackingStep DEF AssemblerInv, FullInv
  <1>3. Advancing' /\ LastWord'
    BY AdvanceStep, LastWordStep DEF AssemblerInv
  <1> QED BY <1>1, <1>2, <1>3 DEF AssemblerInv, FullInv

\* The types hold, and the assembler's list of open elements is the cursor's, level
\* by level, for every document, chunking, option set and history of recoveries.
THEOREM OpenElementsAgree == AsmSpec => []AsmInv
  <1>1. AssemblerInv => AsmInv
    BY ListsAgree DEF AssemblerInv, AsmInv, FullInv
  <1> QED BY <1>1, AssemblerInit, AssemblerStep, PTL DEF AsmSpec

\* Each recovery resumes at or after the failure, and after the recovery before it:
\* whatever the damage looks like, recoveries use up the input.
THEOREM RecoveriesMoveOn == AsmSpec => []RecoveryAdvances
  <1>1. AssemblerInv => RecoveryAdvances
    BY DEF AssemblerInv, Advancing
  <1> QED BY <1>1, AssemblerInit, AssemblerStep, PTL DEF AsmSpec

\* Every call that returns after a failure was told returns that failure again, or,
\* after a recovery that was given up, that the input is over; and no fragment.
THEOREM FailuresAreFinal == AsmSpec => FailureIsFinal
  <1> DEFINE A == failed # NotFailed /\ call' = "idle" =>
                    /\ delivered' = delivered
                    /\ ~failed.recovering => result' = failed.why
                    /\ failed.recovering => result' \in {"AlreadyFinalized", "none"}
  <1>1. ASSUME AssemblerInv, [AsmNext]_asmVars
        PROVE  [A]_asmVars
    <2> SUFFICES ASSUME AsmNext, failed # NotFailed, call' = "idle"
                 PROVE  /\ delivered' = delivered
                        /\ ~failed.recovering => result' = failed.why
                        /\ failed.recovering => result' \in {"AlreadyFinalized", "none"}
      BY <1>1
    <2>1. call = "idle" /\ (Latched \/ GivenUp) /\ ~Accepting
      BY <1>1, AcceptingIsClean DEF AssemblerInv, LastWord
    <2>2. CallAfterFailure \/ CallAfterFinalize
      <3>1. ~Drain
        BY <2>1, DrainMovesTheCursor DEF Draining
      <3> QED BY <2>1, <3>1 DEF AsmNext, Running, AsmFeed, AsmFinalize, FinalizeUnrecovered,
                ScanFinds, ScanStarves, FeedReturns, FeedRecovers, FeedFails, FinalizeReturns,
                FinalizeFails
    <2>3. delivered' = delivered
      <3>1. delivered' = delivered \o << >> /\ delivered \in Seq(FragmentType)
        BY <1>1, <2>2 DEF CallAfterFailure, CallAfterFinalize, Return, AssemblerInv, FullInv, AsmTypeOK
      <3> QED BY <3>1, ConcatEmptySeq
    <2>4. CASE CallAfterFailure
      <3>1. result' = failure /\ Latched
        BY <2>1, <2>4 DEF CallAfterFailure, Return, GivenUp
      <3> QED BY <2>3, <3>1 DEF Latched
    <2>5. CASE CallAfterFinalize
      <3>1. result' \in {"AlreadyFinalized", "none"} /\ GivenUp
        BY <2>1, <2>5 DEF CallAfterFinalize, Return, Latched
      <3> QED BY <2>3, <3>1 DEF GivenUp
    <2> QED BY <2>2, <2>4, <2>5
  <1> QED BY <1>1, AssemblerInit, AssemblerStep, PTL DEF AsmSpec, FailureIsFinal

-----------------------------------------------------------------------------
(* What a step of the assembler releases.                                  *)

\* The call goes on, or it returns with what it released.
GoesOnOrReturns ==
  \/ call' # "idle" /\ UNCHANGED <<delivered, result>>
  \/ call' = "idle" /\ delivered' = delivered \o emitted' /\ result' \in {"none"} \cup Failure

\* A fragment handed over goes behind those before it.
LEMMA HandOverExtends ==
  ASSUME emitted \in Seq(FragmentType), NEW f, NEW tree, HandOver(f, tree)
  PROVE  Extends(emitted, emitted')
  <1>1. emitted' = emitted \/ emitted' = Append(emitted, [f EXCEPT !.view = ViewOf(tree, f.segment)])
    BY DEF HandOver
  <1>2. Extends(emitted, emitted)
    BY LenProperties DEF Extends
  <1> QED BY <1>1, <1>2, AppendExtends

LEMMA SettleExtends ==
  ASSUME emitted \in Seq(FragmentType), NEW id, NEW r, NEW f, NEW tree, Settle(id, r, f, tree)
  PROVE  Extends(emitted, emitted')
  <1>1. HandOver(f, tree) \/ emitted' = emitted
    BY DEF Settle
  <1>2. Extends(emitted, emitted)
    BY LenProperties DEF Extends
  <1> QED BY <1>1, <1>2, HandOverExtends

\* The drain takes nothing back.
LEMMA DrainExtends ==
  ASSUME emitted \in Seq(FragmentType), Drain
  PROVE  Extends(emitted, emitted') /\ call' # "idle" /\ UNCHANGED <<delivered, result>>
  <1>1. UNCHANGED <<delivered, result>>
    BY DEF Drain, Pull, EnterSegment, DeclineMaster, EnterCluster, EnterRetained, DropLeaf,
           AskBlock, ElideLeaf, AskLeaf, AwaitPayload, TakeBlock, TakeLeaf, End, EndMismatch,
           EndCluster, EndSegment, EndOther, Acted
  <1>2. call' # "idle"
    BY DrainMovesTheCursor DEF Draining
  <1>3. CASE EnterCluster \/ (Acting("end") /\ EndSegment)
    BY <1>1, <1>2, <1>3, HandOverExtends DEF EnterCluster, EndSegment, Release
  <1>4. CASE ElideLeaf \/ TakeLeaf \/ EndCluster \/ EndOther
    BY <1>1, <1>2, <1>4, SettleExtends DEF ElideLeaf, TakeLeaf, EndCluster, EndOther
  <1>5. CASE \/ Pull \/ EnterSegment \/ DeclineMaster \/ EnterRetained \/ DropLeaf \/ AskBlock
             \/ AskLeaf \/ AwaitPayload \/ TakeBlock \/ EndMismatch
    <2>1. emitted' = emitted
      BY <1>5 DEF Pull, EnterSegment, DeclineMaster, EnterRetained, DropLeaf, AskBlock, AskLeaf,
                  AwaitPayload, TakeBlock, EndMismatch, content
    <2> QED BY <1>1, <1>2, <2>1, LenProperties DEF Extends
  <1> QED BY <1>3, <1>4, <1>5 DEF Drain, End

\* No step of a running call takes a fragment back.
LEMMA RunningExtends ==
  ASSUME AssemblerInv, AssemblerInv', Running
  PROVE  Extends(emitted, emitted') /\ GoesOnOrReturns
  <1>1. emitted \in Seq(FragmentType) /\ outcome \in {"go", "ok"} \cup Failure
    BY DEF AssemblerInv, FullInv, AsmTypeOK
  <1>2. Extends(emitted, emitted)
    BY <1>1, LenProperties DEF Extends
  <1>3. CASE Drain
    BY <1>1, <1>3, DrainExtends DEF GoesOnOrReturns
  <1>4. CASE ScanFinds
    BY <1>2, <1>4 DEF ScanFinds, GoesOnOrReturns
  <1>5. CASE ScanStarves \/ FeedReturns
    BY <1>2, <1>5 DEF ScanStarves, FeedReturns, Return, GoesOnOrReturns, content
  <1>6. CASE FeedRecovers
    BY <1>1, <1>6, HandOverExtends DEF FeedRecovers, RecordFailure, Release, GoesOnOrReturns
  <1>7. CASE FeedFails \/ FinalizeReturns
    <2>1. /\ Release \/ emitted' = emitted
          /\ call' = "idle" /\ delivered' = delivered \o emitted' /\ result' \in {"none"} \cup Failure
      BY <1>1, <1>7 DEF FeedFails, FinalizeReturns, Return
    <2> QED BY <1>1, <1>2, <2>1, HandOverExtends DEF Release, GoesOnOrReturns
  <1>8. CASE FinalizeFails
    <2> DEFINE last == [waiting EXCEPT !.view = ViewOf(retained, waiting.segment)]
               before == IF waiting = NoFragment THEN emitted ELSE Append(emitted, last)
               cut == [segment |-> segment.offset, cluster |-> cluster.offset, blocks |-> blocks,
                       truncated |-> TRUE, view |-> ViewOf(retained, segment.offset)]
    <2>1. emitted' = before \/ emitted' = Append(before, cut)
      BY <1>8 DEF FinalizeFails
    <2>2. last \in FragmentType
      BY ViewType, ViewedType DEF AssemblerInv, FullInv, AsmTypeOK
    <2> HIDE DEF last, cut
    <2>3. before \in Seq(FragmentType) /\ Extends(emitted, before)
      BY <1>1, <1>2, <2>2, AppendExtends
    <2>4. emitted' \in Seq(FragmentType)
      BY DEF AssemblerInv, FullInv, AsmTypeOK
    <2> HIDE DEF before
    <2>5. Extends(before, Append(before, cut))
      BY <2>3, AppendExtends
    <2>6. Extends(emitted, emitted')
      BY <1>1, <2>1, <2>3, <2>4, <2>5, ExtendsOn
    <2>7. GoesOnOrReturns
      BY <1>1, <1>8 DEF FinalizeFails, Return, GoesOnOrReturns
    <2> QED BY <2>6, <2>7
  <1> QED BY <1>3, <1>4, <1>5, <1>6, <1>7, <1>8 DEF Running

-----------------------------------------------------------------------------
(* The Reader's invariant.                                                 *)

\* A call of the assembler runs only inside the step that made it.
CallsInSteps == step \notin {"feeding", "finalizing"} => call = "idle"

\* Once the iteration has ended there is nothing more to give, and how it ended is
\* all there is to say.
LastVerdict ==
  reported # "none" =>
    /\ step \in {"idle", "next"} /\ queue = << >>
    /\ sticky # "none" \/ sourceDone
    /\ reported = IF sticky # "none" THEN sticky ELSE "EOF"

\* The Reader makes no call that is refused for its order.
NoMisuse == result \in {"none"} \cup Failure

ReaderInv ==
  AssemblerInv /\ RdTypeOK /\ NothingBetween /\ CallsInSteps /\ LastVerdict /\ NoMisuse

LEMMA ReaderInit == RdInit => ReaderInv
  <1> SUFFICES ASSUME RdInit PROVE ReaderInv
    OBVIOUS
  <1>1. AssemblerInv
    BY AssemblerInit DEF RdInit
  <1>2. << >> \in Seq(FragmentType)
    BY EmptySeq
  <1>3. << >> \o (<< >> \o << >>) = << >> /\ (<< >> \o << >>) \o << >> = << >>
    BY <1>2, ConcatEmptySeq
  <1>4. NothingBetween
    BY <1>3 DEF RdInit, AsmInit, NothingBetween
  <1> QED BY <1>1, <1>2, <1>4 DEF RdInit, AsmInit, ReaderInv, RdTypeOK, CallsInSteps, LastVerdict,
                               NoMisuse

\* A step of the Reader is one of its assembler, or leaves it alone.
LEMMA ReaderMovesAssembler ==
  ASSUME [RdNext]_readerVars
  PROVE  [AsmNext]_asmVars
  BY DEF RdNext, Working, Ask, Deliver, ReportFailure, ReportEnd, ReadSome, ReadNone, Assembling,
         Collect, ReadWasFine, ReadFailed, SourceEnds, AsmNext, readerVars

\* What stands between the assembler and the consumer.
LEMMA Parts ==
  ASSUME ReaderInv
  PROVE  /\ delivered \in Seq(FragmentType) /\ emitted \in Seq(FragmentType)
         /\ got \in Seq(FragmentType) /\ queue \in Seq(FragmentType)
         /\ got \o queue \in Seq(FragmentType)
         /\ ~(step \in {"feeding", "finalizing"} /\ call = "idle") => delivered = got \o queue
         /\ step \in {"feeding", "finalizing"} /\ call = "idle"
              => delivered = (got \o queue) \o emitted
  <1>1. /\ delivered \in Seq(FragmentType) /\ emitted \in Seq(FragmentType)
        /\ got \in Seq(FragmentType) /\ queue \in Seq(FragmentType)
    BY DEF ReaderInv, AssemblerInv, FullInv, AsmTypeOK, RdTypeOK
  <1>2. got \o queue \in Seq(FragmentType)
    BY <1>1, ConcatProperties
  <1>3. (got \o queue) \o << >> = got \o queue
        /\ got \o (queue \o << >>) = got \o queue
        /\ got \o (queue \o emitted) = (got \o queue) \o emitted
    <2>1. (got \o queue) \o << >> = got \o queue /\ queue \o << >> = queue
      BY <1>1, <1>2, ConcatEmptySeq
    <2>2. got \o (queue \o emitted) = (got \o queue) \o emitted
      <3>1. got \in Seq(FragmentType) /\ queue \in Seq(FragmentType) /\ emitted \in Seq(FragmentType)
        BY <1>1
      <3> QED BY ONLY <3>1, ConcatAssociative
    <2> QED BY <2>1, <2>2
  <1> QED BY <1>1, <1>2, <1>3 DEF ReaderInv, NothingBetween

\* To show that nothing falls between, in the form of Parts.
LEMMA BetweenAgain ==
  ASSUME got' \in Seq(FragmentType), queue' \in Seq(FragmentType), emitted' \in Seq(FragmentType),
         IF step' \in {"feeding", "finalizing"} /\ call' = "idle"
         THEN delivered' = (got' \o queue') \o emitted'
         ELSE delivered' = got' \o queue'
  PROVE  NothingBetween'
  <1>1. got' \o queue' \in Seq(FragmentType)
    BY ConcatProperties
  <1>2. (got' \o queue') \o << >> = got' \o queue'
        /\ got' \o (queue' \o << >>) = got' \o queue'
        /\ got' \o (queue' \o emitted') = (got' \o queue') \o emitted'
    <2>1. (got' \o queue') \o << >> = got' \o queue' /\ queue' \o << >> = queue'
      BY <1>1, ConcatEmptySeq
    <2>2. got' \o (queue' \o emitted') = (got' \o queue') \o emitted'
      BY ConcatAssociative, SMTT(30)
    <2> QED BY <2>1, <2>2
  <1> QED BY <1>2 DEF NothingBetween

\* The consumer's side: what is asked for and answered leaves the assembler alone.
LEMMA AnswerStep ==
  ASSUME ReaderInv, AssemblerInv', Ask \/ Deliver \/ ReportFailure \/ ReportEnd
  PROVE  ReaderInv'
  <1>1. /\ UNCHANGED asmVars /\ step \in {"idle", "next"} /\ step' \in {"idle", "next"}
        /\ UNCHANGED <<readErr, sourceDone, sticky>>
    BY DEF Ask, Deliver, ReportFailure, ReportEnd
  <1>2. UNCHANGED <<call, emitted, delivered, result>> /\ call = "idle"
    BY <1>1 DEF asmVars, content, control, ReaderInv, CallsInSteps
  <1>3. got' \in Seq(FragmentType) /\ queue' \in Seq(FragmentType) /\ got' \o queue' = got \o queue
    <2>1. CASE Deliver
      <3>1. queue # << >> /\ got' = Append(got, Head(queue)) /\ queue' = Tail(queue)
        BY <2>1 DEF Deliver
      <3>2. got \in Seq(FragmentType) /\ queue \in Seq(FragmentType)
        BY Parts
      <3> QED BY <3>1, <3>2, HeadMoves
    <2>2. CASE ~Deliver
      BY <2>2, Parts DEF Ask, ReportFailure, ReportEnd
    <2> QED BY <2>1, <2>2
  <1>4. NothingBetween'
    BY <1>1, <1>2, <1>3, Parts, BetweenAgain
  <1>5. LastVerdict'
    BY <1>1 DEF Ask, Deliver, ReportFailure, ReportEnd, ReaderInv, LastVerdict
  <1>6. reported' \in {"none", "EOF", "Read"} \cup Failure
    BY DEF Ask, Deliver, ReportFailure, ReportEnd, ReaderInv, RdTypeOK
  <1> QED BY <1>1, <1>2, <1>3, <1>4, <1>5, <1>6 DEF ReaderInv, RdTypeOK, CallsInSteps, NoMisuse

\* The source's side, without the assembler.
LEMMA SourceStep ==
  ASSUME ReaderInv, AssemblerInv', ReadNone \/ ReadWasFine \/ ReadFailed
  PROVE  ReaderInv'
  <1>1. /\ UNCHANGED asmVars /\ UNCHANGED <<queue, sourceDone, got, reported>>
        /\ step' \in {"read", "next"} /\ sticky' \in {sticky, "Read"}
        /\ readErr' \in {readErr, "EOF", "Read"}
        /\ step \notin {"feeding", "finalizing"}
    BY DEF ReadNone, ReadWasFine, ReadFailed, Filling
  <1>2. UNCHANGED <<call, emitted, delivered, result>> /\ call = "idle"
    BY <1>1 DEF asmVars, content, control, ReaderInv, CallsInSteps
  <1>3. reported = "none"
    BY DEF ReadNone, ReadWasFine, ReadFailed, Filling, ReaderInv, LastVerdict
  <1>4. NothingBetween'
    BY <1>1, <1>2 DEF ReaderInv, NothingBetween
  <1> QED BY <1>1, <1>2, <1>3, <1>4 DEF ReaderInv, RdTypeOK, CallsInSteps, NoMisuse, LastVerdict

\* A call of the assembler begins.
LEMMA CallStep ==
  ASSUME ReaderInv, AssemblerInv', SourceEnds \/ \E n \in 1..Documents[doc].len : ReadSome(n)
  PROVE  ReaderInv'
  <1>1. /\ UNCHANGED <<queue, sticky, got, reported>>
        /\ step \notin {"feeding", "finalizing"} /\ step' \in {"feeding", "finalizing"}
        /\ readErr' \in {readErr, "none", "EOF", "Read"}
        /\ sourceDone' = sourceDone \/ sourceDone' = TRUE
    BY DEF SourceEnds, ReadSome, Filling
  <1>2. reported = "none"
    BY DEF SourceEnds, ReadSome, Filling, ReaderInv, LastVerdict
  <1>3. call = "idle" /\ delivered = got \o queue
    BY <1>1, Parts DEF ReaderInv, CallsInSteps
  <1>4. /\ emitted' = << >>
        /\ \/ call' # "idle" /\ UNCHANGED <<delivered, result>>
           \/ call' = "idle" /\ delivered' = delivered \o emitted' /\ result' \in Failure
    <2>1. CASE FinalizeUnrecovered
      <3>1. cause \in Failure
        BY <2>1 DEF FinalizeUnrecovered, ReaderInv, AssemblerInv, FullInv, Tracking, Ruled, Failure
      <3> QED BY <2>1, <3>1 DEF FinalizeUnrecovered, Return
    <2>2. CASE AsmFinalize
      BY <2>2 DEF AsmFinalize
    <2>3. CASE \E n \in 1..Documents[doc].len : AsmFeed(n)
      BY <2>3 DEF AsmFeed
    <2> QED BY <2>1, <2>2, <2>3 DEF SourceEnds, ReadSome
  <1>5. emitted' \in Seq(FragmentType)
    BY <1>4, EmptySeq
  <1>6. NothingBetween'
    BY <1>1, <1>3, <1>4, <1>5, Parts, BetweenAgain
  <1> QED BY <1>1, <1>2, <1>4, <1>6 DEF ReaderInv, RdTypeOK, CallsInSteps, NoMisuse, LastVerdict

\* The call runs, and what it returned is collected.
LEMMA AssembleStep ==
  ASSUME ReaderInv, AssemblerInv', Assembling
  PROVE  ReaderInv'
  <1>1. step \in {"feeding", "finalizing"} /\ call # "idle" /\ UNCHANGED rdVars /\ Running
    BY DEF Assembling
  <1>2. UNCHANGED <<step, readErr, queue, sourceDone, sticky, got, reported>>
    BY <1>1 DEF rdVars
  <1>3. GoesOnOrReturns
    BY <1>1, RunningExtends DEF ReaderInv
  <1>4. emitted' \in Seq(FragmentType)
    BY DEF AssemblerInv, FullInv, AsmTypeOK
  <1>5. NothingBetween'
    BY <1>1, <1>2, <1>3, <1>4, Parts, BetweenAgain DEF GoesOnOrReturns
  <1>6. NoMisuse'
    BY <1>3 DEF GoesOnOrReturns, NoMisuse, ReaderInv
  <1> QED BY <1>1, <1>2, <1>5, <1>6 DEF ReaderInv, RdTypeOK, CallsInSteps, LastVerdict

LEMMA CollectStep ==
  ASSUME ReaderInv, AssemblerInv', Collect
  PROVE  ReaderInv'
  <1>1. /\ step \in {"feeding", "finalizing"} /\ call = "idle" /\ step' \in {"read", "next"}
        /\ queue' = queue \o emitted /\ sticky' = result
        /\ UNCHANGED asmVars /\ UNCHANGED <<readErr, sourceDone, got, reported>>
    BY DEF Collect
  <1>2. UNCHANGED <<call, emitted, delivered, result>>
    BY <1>1 DEF asmVars, content, control
  <1>3. queue' \in Seq(FragmentType) /\ got' \o queue' = (got \o queue) \o emitted
    <2>1. got \in Seq(FragmentType) /\ queue \in Seq(FragmentType) /\ emitted \in Seq(FragmentType)
      BY Parts
    <2>2. queue \o emitted \in Seq(FragmentType)
      BY <2>1, ConcatProperties
    <2>3. got \o (queue \o emitted) = (got \o queue) \o emitted
      BY ONLY <2>1, ConcatAssociative
    <2> QED BY <1>1, <2>2, <2>3
  <1>4. NothingBetween'
    BY <1>1, <1>2, <1>3, Parts, BetweenAgain
  <1>5. reported = "none"
    BY <1>1 DEF ReaderInv, LastVerdict
  <1> QED BY <1>1, <1>2, <1>3, <1>4, <1>5 DEF ReaderInv, RdTypeOK, CallsInSteps, NoMisuse, LastVerdict

LEMMA ReaderStep == ReaderInv /\ [RdNext]_readerVars => ReaderInv'
  <1> SUFFICES ASSUME ReaderInv, [RdNext]_readerVars PROVE ReaderInv'
    OBVIOUS
  <1>1. AssemblerInv'
    BY ReaderMovesAssembler, AssemblerStep DEF ReaderInv
  <1>2. CASE UNCHANGED readerVars
    BY <1>1, <1>2 DEF readerVars, asmVars, rdVars, content, control, ReaderInv, RdTypeOK,
                      NothingBetween, CallsInSteps, LastVerdict, NoMisuse
  <1> QED BY <1>1, <1>2, AnswerStep, SourceStep, CallStep, AssembleStep, CollectStep
          DEF RdNext, Working

-----------------------------------------------------------------------------

\* What the assembler returned is delivered or queued: each fragment once, in order,
\* for every document, split into reads, option set, recovery and failure.
THEOREM NothingFallsBetween == RdSpec => []RdInv
  <1>1. ReaderInv => RdInv
    BY DEF ReaderInv, RdInv
  <1> QED BY <1>1, ReaderInit, ReaderStep, PTL DEF RdSpec

\* An iteration begins as a Delivery does.
LEMMA DeliveryInit == RdInit => D!Init
  <1> SUFFICES ASSUME RdInit PROVE D!Init
    OBVIOUS
  <1>1. << >> \o << >> = << >>
    BY ConcatEmptySeq, EmptySeq
  <1> QED BY <1>1 DEF RdInit, AsmInit, D!Init, Released, D!NoVerdict

\* What was released when no call runs is what the calls returned.
LEMMA ReleasedIdle ==
  ASSUME ReaderInv, call = "idle"
  PROVE  Released = delivered
  BY Parts, ConcatEmptySeq DEF Released

\* Every step of the Reader is one of Delivery's or changes nothing its consumer sees.
LEMMA DeliveryStep ==
  ASSUME ReaderInv, ReaderInv', [RdNext]_readerVars
  PROVE  [D!Next]_(D!deliveryVars)
  <1> USE DEF D!Next, D!deliveryVars, D!NoVerdict
  <1>1. CASE Ask
    <2>1. Released' = Released /\ got' = got /\ reported' = reported
      BY <1>1 DEF Ask, asmVars, content, control, Released
    <2> QED BY <1>1, <2>1 DEF Ask, D!Want
  <1>2. CASE Deliver
    <2>1. UNCHANGED <<call, emitted, delivered>> /\ reported' = reported
      BY <1>2 DEF Deliver, asmVars, content, control
    <2>2. call = "idle" /\ reported = "none"
      BY <1>2 DEF Deliver, ReaderInv, CallsInSteps, LastVerdict
    <2>3. Released' = Released
      BY <2>1 DEF Released
    <2>4. Released = got \o queue
      BY <1>2, <2>2, ReleasedIdle, Parts DEF Deliver
    <2>5. Len(got) < Len(Released) /\ Released[Len(got) + 1] = Head(queue)
      BY <1>2, <2>4, Parts, HeadMoves DEF Deliver
    <2> QED BY <1>2, <2>1, <2>2, <2>3, <2>5 DEF Deliver, D!Give
  <1>3. CASE ReportFailure \/ ReportEnd
    <2>1. UNCHANGED <<call, emitted, delivered>> /\ got' = got /\ queue = << >>
      BY <1>3 DEF ReportFailure, ReportEnd, asmVars, content, control
    <2>2. step = "next" /\ step' = "idle" /\ call = "idle"
      BY <1>3 DEF ReportFailure, ReportEnd, ReaderInv, CallsInSteps
    <2>3. Released' = Released
      BY <2>1 DEF Released
    <2>4. got = Released
      BY <2>1, <2>2, ReleasedIdle, Parts, ConcatEmptySeq
    <2>5. reported' \in {"EOF", "Read"} \cup Failure /\ (reported # "none" => reported' = reported)
      BY <1>3 DEF ReportFailure, ReportEnd, ReaderInv, RdTypeOK, LastVerdict
    <2> QED BY <2>1, <2>2, <2>3, <2>4, <2>5 DEF D!End
  <1>4. CASE Assembling
    <2>1. /\ step \in {"feeding", "finalizing"} /\ call # "idle" /\ Running
          /\ UNCHANGED <<step, got, reported>>
      BY <1>4 DEF Assembling, rdVars
    <2>2. Extends(emitted, emitted') /\ GoesOnOrReturns
      BY <2>1, RunningExtends DEF ReaderInv
    <2>3. delivered \in Seq(FragmentType) /\ emitted \in Seq(FragmentType)
          /\ emitted' \in Seq(FragmentType) /\ delivered' \in Seq(FragmentType)
      BY DEF ReaderInv, AssemblerInv, FullInv, AsmTypeOK
    <2>4. Released = delivered \o emitted
      BY <2>1 DEF Released
    <2>5. Released' = delivered \o emitted'
      BY <2>2, <2>3, ConcatEmptySeq DEF Released, GoesOnOrReturns
    <2>6. Released \in Seq(FragmentType) /\ Released' \in Seq(FragmentType)
      BY <2>3, <2>4, <2>5, ConcatProperties
    <2>7. Extends(Released, Released')
      BY <2>2, <2>3, <2>4, <2>5, ExtendsBehind
    <2>8. SubSeq(Released', 1, Len(Released)) = Released
          /\ (Len(Released) < Len(Released') \/ Released' = Released)
      BY <2>6, <2>7, ExtendsIsPrefix
    <2>9. reported = "none"
      BY <2>1 DEF ReaderInv, LastVerdict
    <2> QED BY <2>1, <2>8, <2>9 DEF D!Make
  <1>5. CASE \E n \in 1..Documents[doc].len : ReadSome(n)
    <2>1. /\ step = "next" /\ step' = "feeding" /\ got' = got /\ reported' = reported
          /\ emitted' = << >> /\ delivered' = delivered
      BY <1>5 DEF ReadSome, Filling, AsmFeed
    <2>2. call = "idle"
      BY <2>1 DEF ReaderInv, CallsInSteps
    <2>3. Released' = delivered \o << >> /\ Released = delivered \o << >>
      BY <2>1, <2>2 DEF Released
    <2> QED BY <2>1, <2>3
  <1>6. CASE SourceEnds
    <2>1. /\ step = "read" /\ step' = "finalizing" /\ got' = got /\ reported' = reported
          /\ emitted' = << >> /\ delivered' \in {delivered, delivered \o << >>}
      BY <1>6 DEF SourceEnds, AsmFinalize, FinalizeUnrecovered, Return
    <2>2. call = "idle" /\ delivered \o << >> = delivered
      BY <2>1, Parts, ConcatEmptySeq DEF ReaderInv, CallsInSteps
    <2>3. Released' = Released
      BY <2>1, <2>2 DEF Released
    <2> QED BY <2>1, <2>3
  <1>7. CASE ReadNone \/ Collect \/ ReadWasFine \/ ReadFailed
    <2>1. UNCHANGED <<call, emitted, delivered, got, reported>> /\ step # "idle" /\ step' # "idle"
      BY <1>7 DEF ReadNone, Collect, ReadWasFine, ReadFailed, Filling, asmVars, content, control
    <2> QED BY <2>1 DEF Released
  <1>8. CASE UNCHANGED readerVars
    BY <1>8 DEF readerVars, rdVars, asmVars, content, control, Released
  <1> QED BY <1>1, <1>2, <1>3, <1>4, <1>5, <1>6, <1>7, <1>8 DEF RdNext, Working

\* The Reader's iteration is a Delivery: the consumer is given the assembler's
\* fragments in their order, each of them once, and no verdict before the last.
THEOREM ReaderDeliversAsPromised == RdSpec => ReaderImplementsDelivery
  <1>1. RdInit => D!Init
    BY DeliveryInit
  <1>2. ReaderInv /\ ReaderInv' /\ [RdNext]_readerVars => [D!Next]_(D!deliveryVars)
    BY DeliveryStep
  <1> QED BY <1>1, <1>2, ReaderInit, ReaderStep, PTL DEF RdSpec, ReaderImplementsDelivery, D!Spec

=============================================================================
