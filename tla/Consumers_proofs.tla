-------------------------- MODULE Consumers_proofs --------------------------
(***************************************************************************)
(* The consumers of a cursor.  A stream's steps are steps of its cursor, so  *)
(* what is proved of every cursor holds for it, and on that ground: a        *)
(* drained stream never starves, and what an iteration reported is what the  *)
(* whole source says.  xml's stack of tags is the cursor's stack             *)
(* of masters, the lines of dump are indented as the elements nest, every      *)
(* element told of is shown, a document is closed however the walk ended, and *)
(* success is of a source read to its end: for every document, reader and    *)
(* encoder.                                                                *)
(***************************************************************************)
EXTENDS CommandLine, Cursor_proofs

-----------------------------------------------------------------------------
(* The stream.                                                             *)

\* The cursor has nothing to report from the bytes fed.
NothingToReport ==
  \/ ResolveResult = "NeedMoreData"
  \/ /\ call = "next" /\ ResolveResult = "ok"
     /\ PeekResult(doc, ResolvedParser) = "NeedMoreData"

\* A stream finalizes its cursor only when it starves, so that FinalizeEOF runs
\* at once and nothing can starve after it.
StreamInv ==
  /\ CursorInv
  /\ drained \in BOOLEAN /\ drained = finalized
  /\ drained /\ err = "none" => eofRun
  /\ held \in {"master", "leaf"} => err = "none"
  /\ starved => /\ err = "none" /\ ~drained /\ NothingToReport
                /\ call # "idle"
  /\ call \in {"idle", "next", "payload"}
  /\ LeafStaysValid

-----------------------------------------------------------------------------

\* The stream drives its cursor only through the cursor's own calls.
LEMMA StreamStepIsCursorStep == StreamNext => [Next]_vars
  BY DEF StreamNext, Decide, AskNext, AskPayload, Calls, PullAnswered, PullStarves,
         PayloadAnswered, PayloadStarves, Answer, Fill, FillReads, FillReadsNothing,
         FillFails, FillEnds, Next, Consume, CursorNext, vars

\* A stream begins with nothing starved or drained.
LEMMA StreamInitInv == StreamInit => StreamInv
  BY InitInv DEF StreamInit, Init, StreamInv, LeafStaysValid

\* A failure leaves the consumer without a node.
LEMMA AnswerHolds ==
  ASSUME StreamInv, Answer
  PROVE  /\ finalized' = finalized
         /\ held' \in {"master", "leaf"} => err' = "none"
         /\ drained /\ err' = "none" => eofRun'
  <1>. USE DEF Fail, Settled, Idle
  <1>1. held' \in {"master", "leaf"} => err' = "none"
    BY DEF Answer, NextAgain, NextResolveFails, NextDequeue, DequeueClose, IssueEnd,
           NextRunsEOF, NextEOF, NextEnd, AdvanceEnd, NextHeader, AdvanceHeader, NextMalformed
  <1>2. finalized' = finalized
    BY DEF Answer, NextAgain, NextResolveFails, NextDequeue, NextRunsEOF, NextEOF,
           NextEnd, NextHeader, NextMalformed
  <1>3. eofRun' = eofRun \/ eofRun'
    BY DEF Answer, NextAgain, NextResolveFails, NextDequeue, NextRunsEOF, NextEOF,
           NextEnd, NextHeader, NextMalformed
  <1>4. err' = "none" => err = "none"
    BY DEF Answer, NextAgain, NextResolveFails, NextDequeue, NextRunsEOF, NextEOF,
           NextEnd, NextHeader, NextMalformed
  <1>5. drained /\ err = "none" => eofRun
    BY DEF StreamInv
  <1>. QED BY <1>1, <1>2, <1>3, <1>4, <1>5

\* Once FinalizeEOF ran, no decision is outstanding and no leaf can be held.
LEMMA QuietAfterEOF ==
  ASSUME StreamInv, err = "none", drained
  PROVE  ResolveResult = "ok" /\ held # "leaf"
  <1>1. eofRun /\ pending = "none"
    BY DEF StreamInv, CursorInv, EOFRunDrained
  <1>. QED BY <1>1 DEF ResolveResult, StreamInv, CursorInv, HeldIsPending

\* A leaf being asked for its payload is the element the parser stands on.
LEMMA PayloadAsked ==
  ASSUME StreamInv, held = "leaf", decision = "none"
  PROVE  ResolveResult = PayloadResult(p) /\ pending = "leaf"
  <1>1. err = "none" /\ pending = "leaf"
    BY DEF StreamInv, CursorInv, HeldIsPending
  <1>2. p.current.kind = "leaf"
    BY <1>1 DEF StreamInv, CursorInv, PendingMatches
  <1>. QED BY <1>1, <1>2 DEF ResolveResult, SkipPayloadResult

\* What starves, starves before the end: a drained stream's cursor is finalized,
\* and a finalized cursor does not ask for more.
LEMMA StarvingStep ==
  ASSUME StreamInv, PullStarves \/ PayloadStarves
  PROVE  StreamInv'
  <1>1. CursorInv'
    BY NextInv, StreamStepIsCursorStep DEF StreamNext, Calls, StreamInv
  <1>2. CASE PullStarves
    <2>. USE DEF PullStarves
    <2>1. CASE NextResolveBlocked
      <3>1. ~drained
        BY <2>1, QuietAfterEOF DEF NextResolveBlocked, StreamInv
      <3>2. NothingToReport'
        BY <2>1 DEF NextResolveBlocked, NothingToReport, ResolveResult
      <3>. QED BY <1>1, <1>2, <2>1, <3>1, <3>2
               DEF NextResolveBlocked, StreamInv, LeafStaysValid
    <2>2. CASE NextNeedsMore
      <3>1. ResolveResult' = "ok" /\ ResolvedParser' = ResolvedParser
        BY <2>2 DEF NextNeedsMore, Settled, ResolveResult, ResolvedParser
      <3>2. NothingToReport'
        BY <1>2, <2>2, <3>1 DEF NextNeedsMore, NothingToReport, Idle
      <3>. QED BY <1>1, <1>2, <2>2, <3>2
               DEF NextNeedsMore, Idle, StreamInv, LeafStaysValid
    <2>. QED BY <1>2, <2>1, <2>2
  <1>3. CASE PayloadStarves
    <2>1. held = "leaf" /\ decision = "none" /\ err = "none"
      BY <1>3 DEF PayloadStarves, StreamInv, LeafStaysValid
    <2>2. ResolveResult = "NeedMoreData"
      BY <1>3, <2>1, PayloadAsked DEF PayloadStarves
    <2>3. ~drained
      BY <2>1, <2>2, QuietAfterEOF DEF StreamInv
    <2>4. NothingToReport'
      BY <1>3, <2>2 DEF PayloadStarves, vars, NothingToReport, ResolveResult
    <2>. QED BY <1>1, <1>3, <2>1, <2>3, <2>4
             DEF PayloadStarves, vars, StreamInv, LeafStaysValid
  <1>. QED BY <1>2, <1>3

\* fill finalizes the cursor in the step that drains the stream.
LEMMA FillingStep ==
  ASSUME StreamInv, Fill
  PROVE  StreamInv'
  <1>1. CursorInv'
    BY NextInv, StreamStepIsCursorStep DEF StreamNext, StreamInv
  <1>2. ASSUME NEW n \in 1..Documents[doc].len, FillReads(n) PROVE StreamInv'
    BY <1>1, <1>2 DEF FillReads, FeedChunk, StreamInv, LeafStaysValid
  <1>3. CASE FillReadsNothing
    <2>1. NothingToReport' = NothingToReport
      BY <1>3 DEF FillReadsNothing, vars, NothingToReport, ResolveResult, ResolvedParser
    <2>. QED BY <1>1, <1>3, <2>1 DEF FillReadsNothing, vars, StreamInv, LeafStaysValid
  <1>4. CASE FillFails
    BY <1>1, <1>4 DEF FillFails, vars, StreamInv, LeafStaysValid
  <1>5. CASE FillEnds
    <2>. USE DEF FillEnds
    <2>1. err = "none" /\ NothingToReport
      BY <1>5 DEF StreamInv
    <2>2. finalized' = TRUE /\ drained' = TRUE /\ held' = "none" /\ starved' = FALSE
      BY <1>5 DEF Finalize
    <2>3. eofRun'
      BY <1>5, <2>1 DEF Finalize, NothingToReport
    <2>4. call' = IF err' = "none" THEN call ELSE "idle"
      BY <1>5
    <2>5. call = "payload" => err' # "none"
      <3>1. SUFFICES ASSUME call = "payload" PROVE err' # "none"
        OBVIOUS
      <3>2. held = "leaf" /\ decision = "none" /\ pending = "leaf"
        BY <3>1 DEF StreamInv, LeafStaysValid
      <3>3. ResolveResult = PayloadResult(p)
        BY <3>2, PayloadAsked
      <3>4. ResolveResult = "NeedMoreData"
        BY <2>1, <3>1 DEF NothingToReport
      <3>5. ShortPayload(p)
        BY <3>3, <3>4 DEF PayloadResult, ShortPayload, SkipPayloadResult, Available
      <3>6. FinalizeEOFResult(doc, p) = "TruncatedPayload"
        BY <3>5 DEF FinalizeEOFResult
      <3>. QED BY <1>5, <3>4, <3>6 DEF Finalize, Fail
    <2>. QED BY <1>1, <2>2, <2>3, <2>4, <2>5 DEF StreamInv, LeafStaysValid
  <1>. QED BY <1>2, <1>3, <1>4, <1>5 DEF Fill

\* The invariant of the stream, with that of its cursor, is inductive.
LEMMA StreamNextInv == StreamInv /\ [StreamNext]_streamVars => StreamInv'
  <1>. SUFFICES ASSUME StreamInv, [StreamNext]_streamVars PROVE StreamInv'
    OBVIOUS
  <1>1. CursorInv'
    <2>1. [Next]_vars
      BY StreamStepIsCursorStep DEF streamVars, vars
    <2>. QED BY <2>1, NextInv DEF StreamInv
  <1>2. CASE Decide
    BY <1>1, <1>2 DEF Decide, Descend, SkipSubtree, SkipLeaf, StreamInv, LeafStaysValid
  <1>3. CASE AskNext
    BY <1>1, <1>3 DEF AskNext, vars, StreamInv, LeafStaysValid
  <1>4. CASE AskPayload
    BY <1>1, <1>4, PayloadAsked DEF AskPayload, vars, StreamInv, LeafStaysValid
  <1>5. CASE PullAnswered
    BY <1>1, <1>5, AnswerHolds DEF PullAnswered, StreamInv, LeafStaysValid
  <1>6. CASE PayloadAnswered
    BY <1>1, <1>6 DEF PayloadAnswered, Payload, StreamInv, LeafStaysValid
  <1>7. CASE PullStarves \/ PayloadStarves
    BY <1>7, StarvingStep
  <1>8. CASE Fill
    BY <1>8, FillingStep
  <1>9. CASE UNCHANGED streamVars
    <2>1. NothingToReport' = NothingToReport
      BY <1>9 DEF streamVars, vars, NothingToReport, ResolveResult, ResolvedParser
    <2>. QED BY <1>1, <1>9, <2>1 DEF streamVars, vars, StreamInv, LeafStaysValid
  <1>. QED BY <1>2, <1>3, <1>4, <1>5, <1>6, <1>7, <1>8, <1>9 DEF StreamNext, Calls

\* Both hold always.
LEMMA StreamCorrect == StreamSpec => []StreamInv
  BY StreamInitInv, StreamNextInv, PTL DEF StreamSpec

\* A drained stream is never asked for more input, so the io.EOF that fill keeps
\* for that case never ends an iteration that had bytes left to explain
\* (stream.go, fill; cursor.go, Finalize).
THEOREM StreamNeverStarves == StreamSpec => []NeverStarvedAtEnd
  <1>1. StreamInv => NeverStarvedAtEnd
    BY DEF StreamInv, NeverStarvedAtEnd
  <1>. QED BY <1>1, StreamCorrect, PTL

\* The leaf of a Payload call is still the pending node, undecided, after every
\* read the call makes (stream.go, Payload).
THEOREM StreamLeafStaysValid == StreamSpec => []LeafStaysValid
  <1>1. StreamInv => LeafStaysValid
    BY DEF StreamInv
  <1>. QED BY <1>1, StreamCorrect, PTL

\* What remains of the types of the stream's variables, of the constants' values.
CountsInv == starved \in BOOLEAN /\ sourceEnd \in Nat /\ hiccups \in 0..MaxHiccups

\* The reader has some end, and has not failed yet.
LEMMA CountsInit == StreamInit => CountsInv
  <1>. SUFFICES ASSUME StreamInit PROVE CountsInv
    OBVIOUS
  <1>1. Documents[doc].start \in Nat /\ Documents[doc].len \in Nat
    BY Assumption DEF DocumentsAssumption, StreamInit, Init
  <1>2. PICK s \in Nat, l \in Nat : sourceEnd \in s..(s + l)
    BY <1>1 DEF StreamInit
  <1>3. sourceEnd \in Nat
    BY <1>2
  <1>4. starved \in BOOLEAN
    BY DEF StreamInit
  <1>5. hiccups \in 0..MaxHiccups
    BY HiccupsAssumption DEF StreamInit
  <1>. QED BY <1>3, <1>4, <1>5 DEF CountsInv

\* fill alone counts, and not past the bound.
LEMMA CountsNext == CountsInv /\ [StreamNext]_streamVars => CountsInv'
  <1>. SUFFICES ASSUME CountsInv, [StreamNext]_streamVars PROVE CountsInv'
    OBVIOUS
  <1>. USE HiccupsAssumption DEF CountsInv
  <1>1. CASE Decide \/ AskNext \/ AskPayload \/ Calls
    BY <1>1 DEF Decide, AskNext, AskPayload, Calls, PullAnswered, PullStarves,
                PayloadAnswered, PayloadStarves
  <1>2. CASE Fill
    <2>1. ASSUME NEW n \in 1..Documents[doc].len, FillReads(n) PROVE CountsInv'
      BY <2>1 DEF FillReads
    <2>2. CASE FillReadsNothing
      BY <2>2 DEF FillReadsNothing
    <2>3. CASE FillFails
      <3>1. CASE drained
        BY <2>3, <3>1 DEF FillFails
      <3>2. CASE ~drained
        <4>1. hiccups' = hiccups + 1 /\ hiccups < MaxHiccups /\ sourceEnd' = sourceEnd
          BY <2>3, <3>2 DEF FillFails
        <4>2. hiccups' \in 0..MaxHiccups
          BY <4>1
        <4>3. starved' \in BOOLEAN
          BY <2>3 DEF FillFails
        <4>. QED BY <4>1, <4>2, <4>3
      <3>. QED BY <3>1, <3>2
    <2>4. CASE FillEnds
      BY <2>4 DEF FillEnds
    <2>. QED BY <1>2, <2>1, <2>2, <2>3, <2>4 DEF Fill
  <1>3. CASE UNCHANGED streamVars
    BY <1>3 DEF streamVars
  <1>. QED BY <1>1, <1>2, <1>3 DEF StreamNext

\* Everything the loops of stream.go rely on holds of every reader: one that
\* delivers any chunks, fails, reads nothing, and ends anywhere.
THEOREM StreamIsSafe == StreamSpec => []StreamSafe
  <1>1. StreamInv /\ CountsInv => StreamSafe
    BY DEF StreamInv, CountsInv, StreamSafe, StreamTypeOK, NeverStarvedAtEnd
  <1>2. StreamSpec => []CountsInv
    BY CountsInit, CountsNext, PTL DEF StreamSpec
  <1>. QED BY <1>1, <1>2, StreamCorrect, PTL

-----------------------------------------------------------------------------
(* What a stream reports of its source.                                    *)

\* Where a call of the cursor leaves the parser, what was fed stays.
LEMMA FedStays ==
  /\ ResolvedParser.fed = p.fed
  /\ \A d, q : ConsumeHeader(d, q).fed = q.fed
  /\ \A q : PopMaster(q).fed = q.fed /\ FinalizeEOF(q).fed = q.fed /\ StepOver(q).fed = q.fed
  BY DEF ResolvedParser, EnterMaster, StepOver, ConsumeHeader, PopMaster, FinalizeEOF, At

\* No failure of reading is that of feeding too late.
LEMMA FailuresAreReadings ==
  /\ ResolveResult # "FedAfterFinalize"
  /\ \A d, q : PeekResult(d, q) # "FedAfterFinalize"
  /\ \A d, q : FinalizeEOFResult(d, q) # "FedAfterFinalize"
  /\ \A q : /\ CloseMasterResult(q) # "FedAfterFinalize"
            /\ LeaveMasterResult(q) # "FedAfterFinalize"
  <1>1. ResolveResult # "FedAfterFinalize"
    BY DEF ResolveResult, PayloadResult, SkipPayloadResult, EnterMasterResult
  <1>2. \A d, q : PeekResult(d, q) # "FedAfterFinalize"
    BY DEF PeekResult, HeaderResult, HeaderOutcome, VINTResult
  <1>3. \A d, q : LeftoverResult(d, q) # "FedAfterFinalize"
    BY <1>2 DEF LeftoverResult
  <1>4. \A d, q : FinalizeEOFResult(d, q) # "FedAfterFinalize"
    BY <1>3 DEF FinalizeEOFResult
  <1>5. \A q : /\ CloseMasterResult(q) # "FedAfterFinalize"
               /\ LeaveMasterResult(q) # "FedAfterFinalize"
    BY DEF CloseMasterResult, LeaveMasterResult
  <1> QED BY <1>1, <1>2, <1>4, <1>5

\* No step of Next, of Payload or of a decision feeds.
LEMMA AnswersFeedNothing ==
  ASSUME CursorNext \/ Payload \/ Descend \/ SkipSubtree \/ SkipLeaf,
         err # "FedAfterFinalize"
  PROVE  p'.fed = p.fed /\ finalized' = finalized /\ err' # "FedAfterFinalize" /\ doc' = doc
  <1> USE FedStays, FailuresAreReadings DEF Fail, Idle
  <1>1. CASE NextAgain \/ NextResolveBlocked \/ NextResolveFails \/ NextNeedsMore \/ NextEOF
             \/ NextMalformed
    BY <1>1 DEF NextAgain, NextResolveBlocked, NextResolveFails, NextNeedsMore, NextEOF,
                NextMalformed
  <1>2. CASE NextDequeue
    BY <1>2 DEF NextDequeue, DequeueClose, IssueEnd
  <1>3. CASE NextRunsEOF
    BY <1>3 DEF NextRunsEOF, DequeueClose, IssueEnd
  <1>4. CASE NextEnd
    BY <1>4 DEF NextEnd, AdvanceEnd, IssueEnd
  <1>5. CASE NextHeader
    BY <1>5 DEF NextHeader, AdvanceHeader, IssueEnd
  <1>6. CASE Payload \/ Descend \/ SkipSubtree \/ SkipLeaf
    BY <1>6 DEF Payload, Descend, SkipSubtree, SkipLeaf
  <1> QED BY <1>1, <1>2, <1>3, <1>4, <1>5, <1>6 DEF CursorNext

\* A stream feeds its cursor what the source holds, finalizes it at the source's end,
\* and feeds nothing then.
SourceInv ==
  /\ ReadStrong
  /\ sourceEnd \in Nat /\ p.fed <= sourceEnd
  /\ finalized => p.fed = sourceEnd
  /\ err # "FedAfterFinalize"

\* Nothing is fed when a stream is opened.
LEMMA SourceInit == StreamInit => SourceInv
  <1> SUFFICES ASSUME StreamInit PROVE SourceInv
    OBVIOUS
  <1>1. Init /\ ReadStrong
    BY InitReads DEF StreamInit
  <1>2. Documents[doc].start \in Nat /\ Documents[doc].len \in Nat
    BY Assumption DEF DocumentsAssumption, StreamInit, Init
  <1>3. PICK s \in Nat, l \in Nat : sourceEnd \in s..(s + l) /\ Documents[doc].start = s
    BY <1>2 DEF StreamInit
  <1>4. sourceEnd \in Nat /\ Documents[doc].start <= sourceEnd
    BY <1>3
  <1>5. p.fed = Documents[doc].start
    BY <1>1 DEF Init, New
  <1> QED BY <1>1, <1>4, <1>5 DEF SourceInv, Init

\* Whatever the reader does, the cursor is fed from the source and told of its end.
LEMMA SourceNext == SourceInv /\ [StreamNext]_streamVars => SourceInv'
  <1> SUFFICES ASSUME SourceInv, [StreamNext]_streamVars PROVE SourceInv'
    OBVIOUS
  <1>1. ReadStrong'
    <2>1. [Next]_vars
      BY StreamStepIsCursorStep DEF streamVars, vars
    <2> QED BY <2>1, NextReads DEF SourceInv
  <1>2. p.fed \in Nat
    BY DEF SourceInv, ReadStrong, CursorInv, TypeOK, ParserState
  <1>3. ASSUME p'.fed = p.fed, finalized' = finalized, err' # "FedAfterFinalize",
               sourceEnd' = sourceEnd
        PROVE  SourceInv'
    BY <1>1, <1>3 DEF SourceInv
  <1>4. CASE Decide \/ Calls
    <2>1. CASE PayloadStarves
      BY <1>3, <2>1 DEF PayloadStarves, vars, SourceInv
    <2>2. CASE Decide \/ PullAnswered \/ PullStarves \/ PayloadAnswered
      <3>1. CursorNext \/ Payload \/ Descend \/ SkipSubtree \/ SkipLeaf
        BY <2>2 DEF Decide, PullAnswered, PullStarves, PayloadAnswered, Answer, CursorNext
      <3>2. sourceEnd' = sourceEnd
        BY <2>2 DEF Decide, PullAnswered, PullStarves, PayloadAnswered
      <3> QED BY <1>3, <3>1, <3>2, AnswersFeedNothing DEF SourceInv
    <2> QED BY <1>4, <2>1, <2>2 DEF Calls
  <1>5. CASE AskNext \/ AskPayload \/ FillReadsNothing \/ FillFails \/ UNCHANGED streamVars
    BY <1>3, <1>5 DEF AskNext, AskPayload, FillReadsNothing, FillFails, streamVars, vars, SourceInv
  <1>6. ASSUME NEW n \in 1..Documents[doc].len, FillReads(n)
        PROVE  SourceInv'
    <2>1. /\ p'.fed = p.fed + n /\ p.fed + n <= sourceEnd /\ sourceEnd' = sourceEnd
          /\ ~finalized /\ ~finalized' /\ err' = err
      BY <1>6 DEF FillReads, FeedChunk, Feed
    <2> QED BY <1>1, <2>1 DEF SourceInv
  <1>7. CASE FillEnds
    <2>1. p.fed = sourceEnd /\ sourceEnd' = sourceEnd /\ Finalize
      BY <1>7 DEF FillEnds
    <2>2. p'.fed = p.fed
      BY <2>1, FedStays DEF Finalize
    <2>3. err' # "FedAfterFinalize"
      BY <2>1, FailuresAreReadings DEF Finalize, Fail, SourceInv
    <2> QED BY <1>1, <1>2, <2>1, <2>2, <2>3 DEF SourceInv
  <1> QED BY <1>4, <1>5, <1>6, <1>7 DEF StreamNext, Fill

\* What was read of the source is the beginning of what it says, and all when it ended.
LEMMA SourceIsDelivered == SourceInv => DeliversTheSource
  <1> SUFFICES ASSUME SourceInv PROVE DeliversTheSource
    OBVIOUS
  <1>1. Possible(skipped, sourceEnd)
    BY DEF SourceInv, Possible
  <1>2. events \in Seq(Event) /\ ReadStrong
    BY DEF SourceInv, ReadStrong, CursorInv, TypeOK
  <1>3. CASE err = "none" /\ ~EOFReported
    <2>1. Extends(events, WholeInput(doc, skipped, sourceEnd))
          /\ WholeInput(doc, skipped, sourceEnd) \in Seq(Event)
      BY <1>1, <1>2, <1>3, PursuesPrefix DEF Healthy
    <2>2. ~Ended
      <3>1. events # << >> => Len(events) \in 1..Len(events)
        BY <1>2, EmptySeq, LenProperties
      <3> QED BY <1>3, <3>1 DEF Ended, EOFReported, Top
    <2> QED BY <1>2, <2>1, <2>2, EventsArePrefix DEF DeliversTheSource
  <1>4. CASE err # "none" \/ EOFReported
    <2>1. HasTold(skipped, sourceEnd)
      BY <1>1, <1>2, <1>4 DEF ReadStrong, ReadsInv
    <2> QED BY <2>1 DEF HasTold, SourceInv, DeliversTheSource
  <1> QED BY <1>3, <1>4

\* However the reader stutters, fails and is asked again, and wherever it ends, the
\* iteration tells what the whole source says, as far as it got: nothing is read twice
\* or dropped between two reads, and an iteration that has ended has told it all
\* (stream.go, next, Payload and fill).
THEOREM StreamDeliversTheSource == StreamSpec => []DeliversTheSource
  BY SourceInit, SourceNext, SourceIsDelivered, PTL DEF StreamSpec

-----------------------------------------------------------------------------
(* The command line.                                                       *)

Ids(o) == [i \in DOMAIN o |-> o[i].id]

Lines == [token : {"line", "lost"}, id : ElementID \cup {"none"}, depth : Nat]

\* The masters that enclose what comes next, at depth n, have their lines: at every
\* depth above, one behind which nothing is as shallow.
Enclosed(lines, n) ==
  \A d \in 0..(n - 1) : \E m \in 1..Len(lines) :
    /\ lines[m].depth = d /\ KindOf[lines[m].id] = "master"
    /\ \A k \in (m + 1)..Len(lines) : lines[k].depth > d

\* What IndentedAsNested says of the lines.
Nested(lines) ==
  \A n \in 1..Len(lines) :
    lines[n].depth = 0 \/ \E m \in 1..(n - 1) :
      /\ lines[m].depth = lines[n].depth - 1 /\ KindOf[lines[m].id] = "master"
      /\ \A k \in (m + 1)..n : lines[k].depth > lines[m].depth

\* The masters o are what is open in the output.
ShownAs(o) ==
  /\ command = "xml" => tags = Ids(o)
  /\ command = "dump" => Enclosed(out, Len(o))

\* The loop has dealt with every event.
AllHandled == handled = Len(events) /\ call # "payload" /\ ShownAs(Masters)

\* The loop's body has the last event before it.
OneInHand ==
  /\ handled < Len(events)
  /\ Told.ev \in {"master", "leaf", "end", "eof", "fail"}
  /\ Told.ev = "master" => /\ call = "idle" /\ pending = "master" /\ pendOpen.id = Told.id
                           /\ KindOf[Told.id] = "master" /\ Told.depth = Len(open)
                           /\ ShownAs(open)
  /\ Told.ev = "leaf" => /\ call \in {"idle", "payload"} /\ pending = "leaf"
                         /\ Told.depth = Len(open) /\ ShownAs(open)
  /\ Told.ev = "end" => /\ call = "idle" /\ pending = "none"
                        /\ command = "xml" => tags = Append(Ids(open), Told.id)
                        /\ command = "dump" => Enclosed(out, Len(open))
  /\ Told.ev \in {"eof", "fail"} => call = "idle"
  /\ Told.ev = "fail" => Told.why \notin {"none", "ok"}

\* The inductive invariant.
WalkInv ==
  /\ StreamInv
  /\ command \in {"dump", "xml"}
  /\ handled \in Nat
  /\ pending = "master" => decision = "none"
  /\ command = "dump" => out \in Seq(Lines) /\ Nested(out)
  /\ phase = "opening" => /\ handled = 0 /\ events = << >> /\ open = << >> /\ pending = "none"
                          /\ call = "idle" /\ tags = << >> /\ out = << >>
  /\ phase = "walking" => AllHandled \/ OneInHand
  /\ phase # "walking" => call = "idle"

-----------------------------------------------------------------------------
(* Tags and lines.                                                         *)

\* A master entered is a tag opened.
LEMMA IdsOfEntered ==
  ASSUME NEW o \in Seq(OpenMaster), NEW om \in OpenMaster
  PROVE  /\ Ids(Append(o, om)) = Append(Ids(o), om.id)
         /\ Append(o, om) \in Seq(OpenMaster) /\ Len(Append(o, om)) = Len(o) + 1
  <1>1. Append(o, om) \in Seq(OpenMaster) /\ Len(Append(o, om)) = Len(o) + 1 /\ Len(o) \in Nat
    BY AppendProperties, LenProperties
  <1>2. Ids(o) = [i \in 1..Len(o) |-> o[i].id]
    BY LenProperties DEF Ids
  <1>3. \A i \in 1..Len(o) : o[i].id \in ElementID
    <2>1. \A i \in 1..Len(o) : o[i] \in OpenMaster
      BY ElementOfSeq
    <2> QED BY <2>1 DEF OpenMaster
  <1>4. om.id \in ElementID
    BY DEF OpenMaster
  <1>5. Ids(o) \in Seq(ElementID) /\ Len(Ids(o)) = Len(o)
    <2> DEFINE ids == Ids(o)
    <2>1. ids \in [1..Len(o) -> ElementID]
      BY <1>2, <1>3
    <2> HIDE DEF ids
    <2>2. ids \in Seq(ElementID)
      BY <1>1, <2>1, SeqDef
    <2> QED BY <1>1, <2>1, <2>2, LenProperties DEF ids
  <1>6. \A i \in 1..(Len(o) + 1) :
          Append(o, om)[i] = IF i = Len(o) + 1 THEN om ELSE o[i]
    BY <1>1, AppendProperties
  <1>7. Ids(Append(o, om)) = [i \in 1..(Len(o) + 1) |-> IF i = Len(o) + 1 THEN om.id ELSE o[i].id]
    BY <1>1, <1>6, LenProperties DEF Ids
  <1>8. Append(Ids(o), om.id) =
          [i \in 1..(Len(o) + 1) |-> IF i = Len(o) + 1 THEN om.id ELSE o[i].id]
    <2> DEFINE ids == Ids(o)
    <2>1. \A i \in 1..Len(o) : ids[i] = o[i].id
      BY <1>2
    <2> HIDE DEF ids
    <2>2. Append(ids, om.id) \in Seq(ElementID) /\ Len(Append(ids, om.id)) = Len(o) + 1
      BY <1>4, <1>5, AppendProperties DEF ids
    <2>3. \A i \in 1..(Len(o) + 1) :
            Append(ids, om.id)[i] = IF i = Len(o) + 1 THEN om.id ELSE o[i].id
      BY <1>4, <1>5, <2>1, AppendProperties DEF ids
    <2>4. Append(ids, om.id) = [i \in 1..(Len(o) + 1) |-> Append(ids, om.id)[i]]
      BY <2>2, LenProperties
    <2> QED BY <2>3, <2>4 DEF ids
  <1> QED BY <1>1, <1>7, <1>8

\* The tag last opened is that of the innermost master.
LEMMA IdsOfLeft ==
  ASSUME NEW o \in Seq(OpenMaster), o # << >>
  PROVE  Ids(o) = Append(Ids(Pop(o)), Top(o).id) /\ Pop(o) \in Seq(OpenMaster)
         /\ Len(Pop(o)) < Len(o) /\ Len(o) \in Nat
  <1>1. /\ Top(o) \in OpenMaster /\ Pop(o) \in Seq(OpenMaster) /\ Len(Pop(o)) = Len(o) - 1
        /\ \A i \in 1..(Len(o) - 1) : Pop(o)[i] = o[i]
        /\ Len(o) \in Nat
    BY PopFacts, LenProperties
  <1>2. Append(Pop(o), Top(o)) = o
    <2>1. /\ Append(Pop(o), Top(o)) \in Seq(OpenMaster)
          /\ Len(Append(Pop(o), Top(o))) = Len(o)
      BY <1>1, AppendProperties
    <2>2. \A i \in 1..Len(o) : Append(Pop(o), Top(o))[i] = o[i]
      BY <1>1, AppendProperties DEF Top
    <2> DEFINE t == Append(Pop(o), Top(o))
    <2>3. t \in Seq(OpenMaster) /\ Len(t) = Len(o) /\ \A i \in 1..Len(o) : t[i] = o[i]
      BY <2>1, <2>2
    <2> HIDE DEF t
    <2>4. t = o BY <2>3, SeqEqual
    <2> QED BY <2>4 DEF t
  <1>3. Ids(Append(Pop(o), Top(o))) = Append(Ids(Pop(o)), Top(o).id)
    BY <1>1, IdsOfEntered
  <1> QED BY <1>1, <1>2, <1>3

\* What was appended is taken off again.
LEMMA PopAppended ==
  ASSUME NEW S, NEW s \in Seq(S), NEW x \in S
  PROVE  Pop(Append(s, x)) = s /\ Append(s, x) # << >>
  <1>1. /\ Append(s, x) \in Seq(S) /\ Len(Append(s, x)) = Len(s) + 1 /\ Len(s) \in Nat
        /\ \A i \in 1..Len(s) : Append(s, x)[i] = s[i]
    BY AppendProperties, LenProperties
  <1>2. Append(s, x) # << >>
    BY <1>1, EmptySeq
  <1>3. /\ Pop(Append(s, x)) \in Seq(S) /\ Len(Pop(Append(s, x))) = Len(s)
        /\ \A i \in 1..Len(s) : Pop(Append(s, x))[i] = s[i]
    <2> DEFINE a == Append(s, x)
    <2>1. /\ a \in Seq(S) /\ a # << >> /\ Len(a) - 1 = Len(s)
          /\ \A i \in 1..Len(s) : a[i] = s[i]
      BY <1>1, <1>2
    <2> HIDE DEF a
    <2>2. /\ Pop(a) \in Seq(S) /\ Len(Pop(a)) = Len(a) - 1
          /\ \A i \in 1..(Len(a) - 1) : Pop(a)[i] = a[i]
      BY <2>1, PopFacts
    <2> QED BY <2>1, <2>2 DEF a
  <1> DEFINE t == Pop(Append(s, x))
  <1>4. t \in Seq(S) /\ Len(t) = Len(s) /\ \A i \in 1..Len(s) : t[i] = s[i]
    BY <1>3
  <1> HIDE DEF t
  <1>5. t = s BY <1>4, SeqEqual
  <1> QED BY <1>2, <1>5 DEF t

\* What encloses a deeper line encloses a shallower.
LEMMA EnclosedLess ==
  ASSUME NEW lines, NEW n \in Nat, Enclosed(lines, n), NEW k \in Nat, k <= n
  PROVE  Enclosed(lines, k)
  BY DEF Enclosed

\* A line of what stands in the masters shown is indented as it should be, and encloses
\* what comes next if it is a master's.
LEMMA LineAdded ==
  ASSUME NEW lines \in Seq(Lines), Nested(lines), NEW n \in Nat, Enclosed(lines, n),
         NEW line \in Lines, line.depth = n
  PROVE  LET more == Append(lines, line)
         IN /\ more \in Seq(Lines) /\ Nested(more) /\ Enclosed(more, n)
            /\ KindOf[line.id] = "master" => Enclosed(more, n + 1)
  <1> DEFINE more == Append(lines, line)
             L == Len(lines)
  <1>1. /\ more \in Seq(Lines) /\ Len(more) = L + 1 /\ L \in Nat
        /\ \A i \in 1..L : more[i] = lines[i] /\ lines[i] \in Lines
        /\ more[L + 1] = line
    BY AppendProperties, LenProperties, ElementOfSeq
  <1> HIDE DEF more, L
  <1>2. ASSUME NEW d \in 0..(n - 1)
        PROVE  \E m \in 1..L : /\ more[m].depth = d /\ KindOf[more[m].id] = "master"
                               /\ \A k \in (m + 1)..(L + 1) : more[k].depth > d
    <2>1. PICK m \in 1..L : /\ lines[m].depth = d /\ KindOf[lines[m].id] = "master"
                            /\ \A k \in (m + 1)..L : lines[k].depth > d
      BY DEF Enclosed, L
    <2>2. ASSUME NEW k \in (m + 1)..(L + 1)
          PROVE  more[k].depth > d
      <3>1. CASE k = L + 1 BY <1>1, <3>1
      <3>2. CASE k # L + 1
        <4>1. k \in (m + 1)..L /\ k \in 1..L
          BY <1>1, <3>2
        <4> QED BY <1>1, <2>1, <4>1
      <3> QED BY <3>1, <3>2
    <2> QED BY <1>1, <2>1, <2>2
  <1>3. Enclosed(more, n)
    <2> SUFFICES ASSUME NEW d \in 0..(n - 1)
                 PROVE  \E m \in 1..(L + 1) :
                          /\ more[m].depth = d /\ KindOf[more[m].id] = "master"
                          /\ \A k \in (m + 1)..(L + 1) : more[k].depth > d
      BY <1>1 DEF Enclosed
    <2>1. 1..L \subseteq 1..(L + 1)
      BY <1>1
    <2> QED BY <1>2, <2>1
  <1>4. KindOf[line.id] = "master" => Enclosed(more, n + 1)
    <2> SUFFICES ASSUME KindOf[line.id] = "master", NEW d \in 0..n
                 PROVE  \E m \in 1..(L + 1) :
                          /\ more[m].depth = d /\ KindOf[more[m].id] = "master"
                          /\ \A k \in (m + 1)..(L + 1) : more[k].depth > d
      BY <1>1 DEF Enclosed
    <2>1. CASE d = n
      <3>1. L + 1 \in 1..(L + 1) /\ \A k \in (L + 1 + 1)..(L + 1) : FALSE
        BY <1>1
      <3> QED BY <1>1, <2>1, <3>1
    <2>2. CASE d # n
      <3>1. d \in 0..(n - 1) /\ 1..L \subseteq 1..(L + 1)
        BY <1>1, <2>2
      <3> QED BY <1>2, <3>1
    <2> QED BY <2>1, <2>2
  <1>5. Nested(more)
    <2> SUFFICES ASSUME NEW i \in 1..(L + 1), more[i].depth # 0
                 PROVE  \E m \in 1..(i - 1) :
                          /\ more[m].depth = more[i].depth - 1 /\ KindOf[more[m].id] = "master"
                          /\ \A k \in (m + 1)..i : more[k].depth > more[m].depth
      BY <1>1 DEF Nested
    <2>1. CASE i = L + 1
      <3>1. n - 1 \in 0..(n - 1) /\ more[i].depth = n
        BY <1>1, <2>1
      <3>2. PICK m \in 1..L : /\ more[m].depth = n - 1 /\ KindOf[more[m].id] = "master"
                              /\ \A k \in (m + 1)..(L + 1) : more[k].depth > n - 1
        BY <1>2, <3>1
      <3> QED BY <1>1, <2>1, <3>1, <3>2
    <2>2. CASE i # L + 1
      <3>1. i \in 1..L /\ more[i] = lines[i]
        BY <1>1, <2>2
      <3>2. PICK m \in 1..(i - 1) :
              /\ lines[m].depth = lines[i].depth - 1 /\ KindOf[lines[m].id] = "master"
              /\ \A k \in (m + 1)..i : lines[k].depth > lines[m].depth
        BY <3>1 DEF Nested, L
      <3>3. m \in 1..L /\ \A k \in (m + 1)..i : k \in 1..L
        BY <1>1, <3>1
      <3> QED BY <1>1, <3>1, <3>2, <3>3
    <2> QED BY <2>1, <2>2
  <1> QED BY <1>1, <1>3, <1>4, <1>5 DEF more

-----------------------------------------------------------------------------
(* What a Next tells.                                                      *)

\* What can be told last: the end of the input, or a failure and its reason.
TellsLast ==
  \E e : /\ events' = Append(events, e) /\ e.ev \in {"eof", "fail"}
         /\ e.ev = "fail" => e.why \notin {"none", "ok"}

\* That the innermost of the masters o has ended.
TellsEnd(o) ==
  /\ o # << >> /\ open' = Pop(o) /\ pending' = "none"
  /\ \E e : events' = Append(events, e) /\ e.ev = "end" /\ e.id = Top(o).id

\* An element in the masters o.
TellsNode(o) ==
  /\ open' = o /\ pending' \in {"master", "leaf"} /\ decision' = "none"
  /\ \E e : /\ events' = Append(events, e) /\ e.ev = pending' /\ e.depth = Len(o)
            /\ e.id \in ElementID
            /\ pending' = "master" => pendOpen'.id = e.id /\ KindOf[e.id] = "master"

\* Nothing new.
TellsNothing == UNCHANGED <<events, open, pending, decision, pendOpen>>

\* A master nobody decided on is entered.
LEMMA DefaultIsToDescend ==
  ASSUME StreamInv, pending = "master" => decision = "none"
  PROVE  Masters = ResolvedOpen /\ Masters \in Seq(OpenMaster) /\ open \in Seq(OpenMaster)
  <1>1. open \in Seq(OpenMaster) /\ (pending = "master" => pendOpen \in OpenMaster)
    BY DEF StreamInv, CursorInv, TypeOK
  <1>2. pending = "master" => Append(open, pendOpen) \in Seq(OpenMaster)
    BY <1>1, AppendProperties
  <1> QED BY <1>1, <1>2 DEF Masters, ResolvedOpen

\* A failure tells its reason.
LEMMA FailureTold ==
  ASSUME NEW why, Fail(why), why \notin {"none", "ok"}
  PROVE  TellsLast
  BY DEF Fail, Outcome, TellsLast

\* The end of a master, however it comes, is that of the cursor's innermost.
LEMMA EndOrFailure ==
  ASSUME NEW q, NEW o, NEW end, NEW reason, IssueEnd(q, o, end, reason), Settled
  PROVE  TellsLast \/ TellsEnd(o)
  <1>1. CASE o = << >>
    BY <1>1, FailureTold DEF IssueEnd
  <1>2. CASE o # << >>
    BY <1>2 DEF IssueEnd, EndNode, Settled, TellsEnd
  <1> QED BY <1>1, <1>2

LEMMA DequeuedOrFailure ==
  ASSUME NEW q, NEW o, NEW cs, DequeueClose(q, o, cs), Settled
  PROVE  TellsLast \/ TellsEnd(o)
  <1>1. CASE o = << >> \/ Top(o).id # Head(cs).id
    BY <1>1, FailureTold DEF DequeueClose
  <1>2. CASE o # << >> /\ Top(o).id = Head(cs).id
    BY <1>2, EndOrFailure DEF DequeueClose
  <1> QED BY <1>1, <1>2

\* One answer of Next, in terms of the masters the caller was told of.
LEMMA WhatNextTells ==
  ASSUME StreamInv, pending = "master" => decision = "none", Answer
  PROVE  /\ TellsNothing \/ TellsLast \/ TellsEnd(Masters) \/ TellsNode(Masters)
         /\ pending' = "master" => decision' = "none"
  <1>1. Masters = ResolvedOpen
    BY DefaultIsToDescend
  <1>2. CASE NextAgain
    BY <1>2 DEF NextAgain, TellsNothing
  <1>3. CASE NextResolveFails
    BY <1>3, ResolvingHasReasons, FailureTold DEF NextResolveFails
  <1>4. CASE NextDequeue
    BY <1>1, <1>4, DequeuedOrFailure DEF NextDequeue, Settled
  <1>5. CASE NextRunsEOF
    <2>1. Settled
      BY <1>5 DEF NextRunsEOF
    <2>2. TellsLast \/ DequeueClose(FinalizeEOF(ResolvedParser), ResolvedOpen,
                                    ClosedMasters(ResolvedParser))
      <3>1. CASE FinalizeEOFResult(doc, ResolvedParser) # "ok"
        BY <1>5, <3>1, ReasonsAreGiven, FailureTold DEF NextRunsEOF
      <3>2. CASE FinalizeEOFResult(doc, ResolvedParser) = "ok"
        BY <1>5, <3>2 DEF NextRunsEOF, Outcome, TellsLast
      <3> QED BY <3>1, <3>2
    <2> QED BY <1>1, <2>1, <2>2, DequeuedOrFailure DEF Settled
  <1>6. CASE NextEOF
    BY <1>6 DEF NextEOF, Settled, Outcome, TellsLast
  <1>7. CASE NextEnd
    <2>1. Settled
      BY <1>7 DEF NextEnd, AdvanceEnd
    <2>2. TellsLast \/ \E q, end : IssueEnd(q, ResolvedOpen, end, "DeclaredEnd")
      BY <1>7, ReasonsAreGiven, FailureTold DEF NextEnd, AdvanceEnd
    <2> QED BY <1>1, <2>1, <2>2, EndOrFailure DEF Settled
  <1>8. CASE NextHeader
    <2> DEFINE q == ResolvedParser
               o == ResolvedOpen
               h == HeaderAt(doc, q.pos)
    <2>1. AdvanceHeader(q, o)
      BY <1>8 DEF NextHeader
    <2>2. KindOf[h.id] \in Kind /\ h.id \in ElementID
      <3>1. CursorInv /\ err = "none" /\ ResolveResult = "ok" /\ PeekResult(doc, q) = "ok"
        BY <1>8 DEF NextHeader, StreamInv
      <3>2. Quiet(q) /\ doc \in DOMAIN Documents
        BY <3>1, Resolving DEF CursorInv, TypeOK
      <3>3. h \in Header
        BY <3>1, <3>2, PeekAnswers
      <3> QED BY <3>3, Assumption DEF DocumentsAssumption, Header
    <2> HIDE DEF q, o, h
    <2>3. CASE KindOf[h.id] = "endmaster"
      BY <2>1, <2>3, FailureTold DEF AdvanceHeader, Settled, h
    <2>4. CASE KindOf[h.id] # "endmaster" /\ CrossesBoundary(q, o, h)
      <3>1. Settled
        BY <2>1, <2>4 DEF AdvanceHeader, h
      <3>2. TellsLast \/ IssueEnd(PopMaster(q), o, q.pos, "Boundary")
        BY <2>1, <2>4, ReasonsAreGiven, FailureTold DEF AdvanceHeader, h
      <3> QED BY <1>1, <3>1, <3>2, EndOrFailure DEF Settled, o
    <2>5. CASE KindOf[h.id] # "endmaster" /\ ~CrossesBoundary(q, o, h)
      <3> DEFINE kind == KindOf[h.id]
                 e == ElementNode(kind, h, q.pos, Len(o))
      <3>1. /\ open' = o /\ pending' = kind /\ decision' = "none"
            /\ kind = "master" => pendOpen'.id = h.id
            /\ events' = Append(events, e)
        BY <2>1, <2>5 DEF AdvanceHeader, h
      <3>2. kind \in {"master", "leaf"}
        BY <2>2, <2>5 DEF Kind
      <3>3. e.ev = kind /\ e.depth = Len(o) /\ e.id = h.id
        BY DEF ElementNode
      <3> HIDE DEF e
      <3>4. TellsNode(o)
        BY <2>2, <3>1, <3>2, <3>3 DEF TellsNode
      <3> QED BY <1>1, <3>1, <3>4 DEF o
    <2> QED BY <2>3, <2>4, <2>5
  <1>9. CASE NextMalformed
    BY <1>9, FailureTold DEF NextMalformed, Malformed, Misuse, Settled
  <1> QED BY <1>2, <1>3, <1>4, <1>5, <1>6, <1>7, <1>8, <1>9 DEF Answer

-----------------------------------------------------------------------------
(* Steps.                                                                  *)

\* The commands drive their stream only through its own calls.
LEMMA CliStepIsStreamStep == CliNext => [StreamNext]_streamVars
  BY DEF CliNext, Open, AskNode, ShowMaster, ShowEnd, ShowHeader, AskValue, ShowValue, WalkEnds,
         WalkFails, ReadFails, Return, Reading, Handled, StreamNext, Calls, Fill, streamVars

\* What was told last.
LEMMA Telling ==
  ASSUME StreamInv, NEW e, events' = Append(events, e)
  PROVE  Len(events') = Len(events) + 1 /\ Len(events) \in Nat /\ Told' = e
  <1>1. events \in Seq(Event)
    BY DEF StreamInv, CursorInv, TypeOK
  <1> QED BY <1>1 DEF Told, Top

LEMMA ToldType ==
  ASSUME StreamInv, NEW n \in Nat, n < Len(events)
  PROVE  /\ Told \in Event
         /\ \A t \in {Line(Told), Lost(Told)} :
              t \in Lines /\ t.id = Told.id /\ t.depth = Told.depth
  <1>1. events \in Seq(Event) /\ Len(events) \in Nat
    BY LenProperties DEF StreamInv, CursorInv, TypeOK
  <1>2. Told \in Event
    <2>1. Len(events) \in 1..Len(events)
      BY <1>1
    <2> QED BY <1>1, <2>1, ElementOfSeq DEF Told, Top
  <1> QED BY <1>2 DEF Event, Line, Lost, Lines

\* The body has a node before it: it is the last told.
LEMMA PulledFacts ==
  ASSUME WalkInv, NEW ev, Pulled(ev)
  PROVE  /\ OneInHand /\ Told.ev = ev /\ call = "idle" /\ phase = "walking"
         /\ handled < Len(events) /\ Len(events) \in Nat /\ open \in Seq(OpenMaster)
         /\ pending = "master" => pendOpen \in OpenMaster
  <1>1. events \in Seq(Event) /\ Len(events) \in Nat /\ open \in Seq(OpenMaster)
        /\ (pending = "master" => pendOpen \in OpenMaster)
    BY LenProperties DEF WalkInv, StreamInv, CursorInv, TypeOK
  <1> QED BY <1>1 DEF WalkInv, Pulled, AllHandled

\* The stream stays as it is.
LEMMA SameStream ==
  ASSUME WalkInv, UNCHANGED <<streamVars, command>>
  PROVE  /\ StreamInv' /\ events' = events /\ open' = open /\ pending' = pending
         /\ pendOpen' = pendOpen /\ decision' = decision /\ call' = call
         /\ Told' = Told /\ Masters' = Masters /\ Len(events)' = Len(events)
         /\ command' \in {"dump", "xml"} /\ command' = command
  <1>1. StreamInv'
    BY StreamNextInv DEF WalkInv
  <1> QED BY <1>1 DEF streamVars, vars, Told, Masters, WalkInv

LEMMA OpenStep == ASSUME WalkInv, Open PROVE WalkInv'
  <1>1. UNCHANGED <<streamVars, command, handled, tags>> /\ phase = "opening"
    BY DEF Open
  <1>2. phase' \in {"walking", "done"} /\ call' = "idle"
    BY <1>1, SameStream DEF Open, WalkInv
  <1>3. command = "dump" => out' = out
    BY DEF Open
  <1>4. phase' = "walking" => AllHandled'
    <2>1. Masters' = << >> /\ Len(Masters)' = 0 /\ handled' = Len(events)'
      BY <1>1, SameStream DEF WalkInv, Masters
    <2>2. Ids(<< >>) = << >>
      BY DEF Ids
    <2>3. Enclosed(out', 0)
      BY DEF Enclosed
    <2> QED BY <1>1, <1>2, <2>1, <2>2, <2>3, SameStream DEF AllHandled, ShownAs, WalkInv
  <1> QED BY <1>1, <1>2, <1>3, <1>4, SameStream DEF WalkInv

LEMMA AskNodeStep == ASSUME WalkInv, AskNode PROVE WalkInv'
  <1>1. StreamInv'
    BY StreamNextInv, CliStepIsStreamStep DEF WalkInv, AskNode, StreamNext
  <1>2. /\ UNCHANGED <<events, open, pending, pendOpen, decision>> /\ call' = "next"
        /\ UNCHANGED commandVars /\ phase = "walking" /\ handled = Len(events)
    BY DEF AskNode, AskNext, vars
  <1>3. Masters' = Masters
    BY <1>2 DEF Masters
  <1>4. AllHandled
    <2>1. Len(events) \in Nat
      BY LenProperties DEF WalkInv, StreamInv, CursorInv, TypeOK
    <2> QED BY <1>2, <2>1 DEF WalkInv, OneInHand
  <1>5. AllHandled'
    BY <1>2, <1>3, <1>4 DEF AllHandled, ShownAs, commandVars
  <1> QED BY <1>1, <1>2, <1>5 DEF WalkInv, commandVars

LEMMA ShowMasterStep == ASSUME WalkInv, ShowMaster PROVE WalkInv'
  <1> DEFINE more == Append(open, pendOpen)
  <1>1. /\ OneInHand /\ Told.ev = "master" /\ call = "idle" /\ phase = "walking"
        /\ open \in Seq(OpenMaster) /\ pendOpen \in OpenMaster /\ pending = "master"
        /\ KindOf[Told.id] = "master" /\ Told.depth = Len(open) /\ ShownAs(open)
        /\ pendOpen.id = Told.id /\ handled < Len(events)
    BY PulledFacts DEF ShowMaster, OneInHand
  <1>2. handled' = Len(events) /\ UNCHANGED <<streamVars, command>>
    BY DEF ShowMaster, Handled
  <1>3. Masters' = more /\ call' = "idle" /\ handled' = Len(events)' /\ Len(events) \in Nat
    <2>1. Len(events) \in Nat
      BY PulledFacts DEF ShowMaster
    <2> QED BY <1>1, <1>2, <2>1, SameStream DEF Masters
  <1>4. /\ Ids(more) = Append(Ids(open), Told.id) /\ Len(more) = Len(open) + 1 /\ Len(open) \in Nat
    BY <1>1, IdsOfEntered, LenProperties
  <1> HIDE DEF more
  <1>5. CASE command = "dump"
    <2>1. PICK t \in {Line(Told), Lost(Told)} : out' = Append(out, t) /\ phase' = phase
      BY <1>5 DEF ShowMaster, ShowLine
    <2>2. t \in Lines /\ t.id = Told.id /\ t.depth = Told.depth
      BY <1>1, ToldType DEF WalkInv
    <2>3. out' \in Seq(Lines) /\ Nested(out') /\ Enclosed(out', Len(open) + 1)
      BY <1>1, <1>4, <1>5, <2>1, <2>2, LineAdded DEF WalkInv, ShownAs
    <2>4. AllHandled'
      BY <1>2, <1>3, <1>4, <1>5, <2>3 DEF AllHandled, ShownAs
    <2> QED BY <1>1, <1>2, <1>3, <1>5, <2>1, <2>3, <2>4, SameStream DEF WalkInv
  <1>6. CASE command = "xml"
    <2>1. tags' = Append(tags, Told.id) /\ BodyReturns
      BY <1>6 DEF ShowMaster
    <2>2. phase' \in {"walking", "closing"}
      BY <1>1, <2>1 DEF BodyReturns
    <2>3. AllHandled'
      BY <1>1, <1>2, <1>3, <1>4, <1>6, <2>1 DEF AllHandled, ShownAs
    <2> QED BY <1>1, <1>2, <1>3, <1>6, <2>2, <2>3, SameStream DEF WalkInv
  <1> QED BY <1>5, <1>6 DEF WalkInv

LEMMA ShowEndStep == ASSUME WalkInv, ShowEnd PROVE WalkInv'
  <1>1. /\ OneInHand /\ Told.ev = "end" /\ call = "idle" /\ phase = "walking"
        /\ open \in Seq(OpenMaster) /\ pending = "none" /\ handled < Len(events)
        /\ command = "xml" => tags = Append(Ids(open), Told.id)
        /\ command = "dump" => Enclosed(out, Len(open))
    BY PulledFacts DEF ShowEnd, OneInHand
  <1>2. handled' = Len(events) /\ UNCHANGED <<streamVars, command>> /\ Len(events) \in Nat
    BY PulledFacts DEF ShowEnd, Handled
  <1>3. Masters' = open /\ call' = "idle" /\ handled' = Len(events)'
    BY <1>1, <1>2, SameStream DEF Masters
  <1>4. CASE command = "dump"
    <2>1. UNCHANGED <<out, phase>>
      BY <1>4 DEF ShowEnd
    <2>2. AllHandled'
      BY <1>1, <1>2, <1>3, <1>4, <2>1 DEF AllHandled, ShownAs
    <2> QED BY <1>1, <1>2, <1>3, <1>4, <2>1, <2>2, SameStream DEF WalkInv
  <1>5. CASE command = "xml"
    <2>1. Pop(tags) = Ids(open) /\ tags # << >>
      <3>1. Told.id \in ElementID \cup {"none"}
        BY <1>1, ToldType DEF WalkInv, Event
      <3>2. Ids(open) \in Seq(ElementID \cup {"none"})
        <4> DEFINE ids == Ids(open)
        <4>1. Len(open) \in Nat /\ DOMAIN open = 1..Len(open)
              /\ \A i \in 1..Len(open) : open[i] \in OpenMaster
          BY <1>1, LenProperties, ElementOfSeq
        <4>2. ids \in [1..Len(open) -> ElementID \cup {"none"}]
          BY <4>1 DEF Ids, OpenMaster
        <4> HIDE DEF ids
        <4>3. ids \in Seq(ElementID \cup {"none"})
          BY <4>1, <4>2, SeqDef
        <4> QED BY <4>3 DEF ids
      <3> QED BY <1>1, <1>5, <3>1, <3>2, PopAppended
    <2>2. tags' = Pop(tags) /\ BodyReturns
      BY <1>5, <2>1 DEF ShowEnd
    <2>3. phase' \in {"walking", "closing"}
      BY <1>1, <2>2 DEF BodyReturns
    <2>4. AllHandled'
      BY <1>2, <1>3, <1>5, <2>1, <2>2 DEF AllHandled, ShownAs
    <2> QED BY <1>1, <1>2, <1>3, <1>5, <2>3, <2>4, SameStream DEF WalkInv
  <1> QED BY <1>4, <1>5 DEF WalkInv

\* A leaf leaves the masters as they are.
LEMMA LeafShown ==
  ASSUME WalkInv, OneInHand, Told.ev = "leaf", ShownLeaf(Told), StreamInv', phase = "walking",
         UNCHANGED <<events, open, pending, pendOpen, command>>, call' = "idle",
         handled' = Len(events), Len(events) \in Nat
  PROVE  WalkInv'
  <1>1. /\ open \in Seq(OpenMaster) /\ Len(open) \in Nat /\ pending = "leaf"
        /\ handled < Len(events) /\ Told.depth = Len(open) /\ ShownAs(open)
        /\ Masters' = open /\ handled' = Len(events)'
    BY LenProperties DEF OneInHand, WalkInv, StreamInv, CursorInv, TypeOK, Masters
  <1>2. tags' = tags
    BY DEF ShownLeaf
  <1>3. CASE command = "dump"
    <2>1. PICK t \in {Line(Told), Lost(Told)} : out' = Append(out, t) /\ phase' = phase
      BY <1>3 DEF ShownLeaf, ShowLine
    <2>2. t \in Lines /\ t.id = Told.id /\ t.depth = Told.depth
      BY <1>1, ToldType DEF WalkInv
    <2>3. out' \in Seq(Lines) /\ Nested(out') /\ Enclosed(out', Len(open))
      BY <1>1, <1>3, <2>1, <2>2, LineAdded DEF WalkInv, ShownAs
    <2>4. AllHandled'
      BY <1>1, <1>3, <2>3 DEF AllHandled, ShownAs
    <2> QED BY <1>1, <1>3, <2>1, <2>3, <2>4 DEF WalkInv
  <1>4. CASE command = "xml"
    <2>1. BodyReturns
      BY <1>4 DEF ShownLeaf
    <2>2. phase' \in {"walking", "closing"}
      BY <2>1 DEF BodyReturns
    <2>3. AllHandled'
      BY <1>1, <1>2, <1>4 DEF AllHandled, ShownAs
    <2> QED BY <1>1, <1>4, <2>2, <2>3 DEF WalkInv
  <1> QED BY <1>3, <1>4 DEF WalkInv

LEMMA ShowHeaderStep == ASSUME WalkInv, ShowHeader PROVE WalkInv'
  <1>1. /\ OneInHand /\ Told.ev = "leaf" /\ phase = "walking" /\ call = "idle"
        /\ Len(events) \in Nat
    BY PulledFacts DEF ShowHeader
  <1>2. handled' = Len(events) /\ UNCHANGED <<streamVars, command>> /\ ShownLeaf(Told)
    BY DEF ShowHeader, Handled
  <1> QED BY <1>1, <1>2, SameStream, LeafShown

LEMMA AskValueStep == ASSUME WalkInv, AskValue PROVE WalkInv'
  <1>1. StreamInv'
    BY StreamNextInv, CliStepIsStreamStep DEF WalkInv, AskValue, StreamNext
  <1>2. OneInHand /\ Told.ev = "leaf" /\ phase = "walking"
    BY PulledFacts DEF AskValue
  <1>3. /\ UNCHANGED <<events, open, pending, pendOpen, decision>> /\ call' = "payload"
        /\ UNCHANGED commandVars
    BY DEF AskValue, AskPayload, vars
  <1>4. OneInHand'
    BY <1>2, <1>3 DEF OneInHand, ShownAs, commandVars, Told
  <1> QED BY <1>1, <1>2, <1>3, <1>4 DEF WalkInv, commandVars

LEMMA ShowValueStep == ASSUME WalkInv, ShowValue PROVE WalkInv'
  <1>1. StreamInv'
    BY StreamNextInv DEF WalkInv, ShowValue, StreamNext, Calls
  <1>2. /\ call = "payload" /\ call' = "idle" /\ handled' = Len(events) /\ ShownLeaf(Told)
        /\ UNCHANGED <<events, open, pending, pendOpen, command>>
    BY DEF ShowValue, PayloadAnswered, Payload
  <1>3. phase = "walking" /\ OneInHand /\ Told.ev = "leaf"
    <2>1. phase = "walking"
      BY <1>2 DEF WalkInv
    <2>2. OneInHand
      BY <1>2, <2>1 DEF WalkInv, AllHandled
    <2> QED BY <1>2, <2>1, <2>2 DEF OneInHand
  <1>4. Len(events) \in Nat
    BY LenProperties DEF WalkInv, StreamInv, CursorInv, TypeOK
  <1> QED BY <1>1, <1>2, <1>3, <1>4, LeafShown

\* The loop is over, and nothing is shown any more.
LEMMA OverStep == ASSUME WalkInv, WalkEnds \/ WalkFails \/ ReadFails PROVE WalkInv'
  <1>1. StreamInv'
    BY StreamNextInv, CliStepIsStreamStep
       DEF WalkInv, WalkEnds, WalkFails, ReadFails, Handled, StreamNext, Fill
  <1>2. /\ phase' = "closing" /\ out' = out /\ command' = command
        /\ UNCHANGED <<pending, decision>>
    BY DEF WalkEnds, WalkFails, ReadFails, FillFails, Handled, streamVars, vars
  <1>3. handled' \in Nat
    <2>1. Len(events) \in Nat
      BY LenProperties DEF WalkInv, StreamInv, CursorInv, TypeOK
    <2> QED BY <2>1 DEF WalkEnds, WalkFails, ReadFails, Handled, WalkInv
  <1>4. call' = "idle"
    <2>1. CASE WalkEnds \/ WalkFails
      BY <2>1 DEF WalkEnds, WalkFails, Pulled, Handled, streamVars
    <2>2. CASE ReadFails
      BY <2>2 DEF ReadFails, FillFails
    <2> QED BY <2>1, <2>2
  <1> QED BY <1>1, <1>2, <1>3, <1>4 DEF WalkInv

LEMMA ReturnStep == ASSUME WalkInv, Return PROVE WalkInv'
  <1>1. UNCHANGED <<streamVars, command, handled>> /\ phase = "closing" /\ phase' = "done"
    BY DEF Return
  <1>2. command = "dump" => out' = out
    BY DEF Return
  <1> QED BY <1>1, <1>2, SameStream DEF WalkInv

\* Nothing is told, and the masters stay.
LEMMA NothingTold ==
  ASSUME WalkInv, StreamInv', phase = "walking", UNCHANGED commandVars, events' = events,
         pending' = "master" => decision' = "none",
         \/ call' = call /\ UNCHANGED <<open, pending, pendOpen>>
         \/ call = "next" /\ call' \in {"idle", "next"} /\ Masters' = Masters
  PROVE  WalkInv'
  <1>1. AllHandled \/ OneInHand
    BY DEF WalkInv
  <1>2. CASE call' = call /\ UNCHANGED <<open, pending, pendOpen>>
    <2>1. Masters' = Masters /\ Told' = Told
      BY <1>2 DEF Masters, Told
    <2>2. AllHandled => AllHandled'
      BY <1>2, <2>1 DEF AllHandled, ShownAs, commandVars
    <2>3. OneInHand => OneInHand'
      BY <1>2, <2>1 DEF OneInHand, ShownAs, commandVars
    <2> QED BY <1>1, <1>2, <2>2, <2>3 DEF WalkInv, commandVars
  <1>3. CASE call = "next" /\ call' \in {"idle", "next"} /\ Masters' = Masters
    <2>1. AllHandled
      BY <1>1, <1>3 DEF OneInHand
    <2>2. AllHandled'
      BY <1>3, <2>1 DEF AllHandled, ShownAs, commandVars
    <2> QED BY <1>3, <2>2 DEF WalkInv, commandVars
  <1> QED BY <1>2, <1>3

\* The last is told.
LEMMA LastTold ==
  ASSUME WalkInv, StreamInv', phase = "walking", UNCHANGED commandVars, TellsLast,
         pending' = "master" => decision' = "none", call' = "idle"
  PROVE  WalkInv'
  <1>1. PICK e : /\ events' = Append(events, e) /\ e.ev \in {"eof", "fail"}
                 /\ e.ev = "fail" => e.why \notin {"none", "ok"}
    BY DEF TellsLast
  <1>2. Len(events') = Len(events) + 1 /\ Len(events) \in Nat /\ Told' = e
    BY <1>1, Telling DEF WalkInv
  <1>3. handled' = handled /\ handled \in Nat /\ handled <= Len(events)
    BY <1>2 DEF WalkInv, AllHandled, OneInHand, commandVars
  <1>4. OneInHand'
    BY <1>1, <1>2, <1>3 DEF OneInHand
  <1> QED BY <1>4 DEF WalkInv, commandVars

\* An element or an end is told.
LEMMA ElementTold ==
  ASSUME WalkInv, StreamInv', phase = "walking", UNCHANGED commandVars, call = "next",
         TellsEnd(Masters) \/ TellsNode(Masters),
         pending' = "master" => decision' = "none", call' = "idle"
  PROVE  WalkInv'
  <1>1. AllHandled
    BY DEF WalkInv, OneInHand
  <1>2. handled' = Len(events) /\ ShownAs(Masters) /\ Masters \in Seq(OpenMaster)
    BY <1>1, DefaultIsToDescend DEF AllHandled, commandVars, WalkInv
  <1>3. CASE TellsEnd(Masters)
    <2>1. PICK e : events' = Append(events, e) /\ e.ev = "end" /\ e.id = Top(Masters).id
      BY <1>3 DEF TellsEnd
    <2>2. Len(events') = Len(events) + 1 /\ Len(events) \in Nat /\ Told' = e
      BY <2>1, Telling DEF WalkInv
    <2>3. Masters # << >> /\ open' = Pop(Masters) /\ pending' = "none"
      BY <1>3 DEF TellsEnd
    <2>4. /\ Ids(Masters) = Append(Ids(open'), Told'.id) /\ open' \in Seq(OpenMaster)
          /\ Len(open') < Len(Masters) /\ Len(Masters) \in Nat
      BY <1>2, <2>1, <2>2, <2>3, IdsOfLeft
    <2>5. command = "dump" => Enclosed(out, Len(open'))
      <3>1. Len(open') \in Nat /\ Len(open') <= Len(Masters)
        BY <2>4, LenProperties
      <3> QED BY <1>2, <2>4, <3>1, EnclosedLess DEF ShownAs
    <2>6. OneInHand'
      BY <1>2, <2>1, <2>2, <2>3, <2>4, <2>5 DEF OneInHand, ShownAs, commandVars
    <2> QED BY <2>6, <1>2, <2>2 DEF WalkInv, commandVars
  <1>4. CASE TellsNode(Masters)
    <2>1. PICK e : /\ events' = Append(events, e) /\ e.ev = pending' /\ e.depth = Len(Masters)
                   /\ pending' = "master" => pendOpen'.id = e.id /\ KindOf[e.id] = "master"
      BY <1>4 DEF TellsNode
    <2>2. Len(events') = Len(events) + 1 /\ Len(events) \in Nat /\ Told' = e
      BY <2>1, Telling DEF WalkInv
    <2>3. open' = Masters /\ pending' \in {"master", "leaf"}
      BY <1>4 DEF TellsNode
    <2>4. ShownAs(open)'
      BY <1>2, <2>3 DEF ShownAs, commandVars
    <2>5. OneInHand'
      BY <1>2, <2>1, <2>2, <2>3, <2>4 DEF OneInHand
    <2> QED BY <2>5, <1>2, <2>2 DEF WalkInv, commandVars
  <1> QED BY <1>3, <1>4

\* What fill's Finalize leaves behind as a failure is told, with its reason.
LEMMA Finalized ==
  ASSUME Finalize, err' # "none"
  PROVE  TellsLast
  <1> DEFINE blocked == ResolveResult = "NeedMoreData"
             q == IF blocked THEN p ELSE ResolvedParser
  <1>1. err = "none"
    BY DEF Finalize
  <1>2. \/ Fail(ResolveResult) /\ ResolveResult # "ok"
        \/ Fail(PeekResult(doc, q)) /\ PeekResult(doc, q) # "ok"
        \/ Fail(FinalizeEOFResult(doc, q)) /\ FinalizeEOFResult(doc, q) # "ok"
    <2>1. CASE ResolveResult \notin {"ok", "NeedMoreData"}
      BY <2>1 DEF Finalize
    <2>2. CASE ResolveResult \in {"ok", "NeedMoreData"}
      BY <1>1, <2>2 DEF Finalize
    <2> QED BY <2>1, <2>2
  <1> HIDE DEF q
  <1> QED BY <1>2, ResolvingHasReasons, ReasonsAreGiven, FailureTold

\* The end of the reader, within a Next or a Payload.
LEMMA FillEndsStep ==
  ASSUME WalkInv, StreamInv', phase = "walking", UNCHANGED commandVars, FillEnds
  PROVE  WalkInv'
  <1>1. /\ Finalize /\ err = "none" /\ held' = "none"
        /\ call' = IF err' = "none" THEN call ELSE "idle"
        /\ call \in {"next", "payload"}
    BY DEF FillEnds, Finalize, WalkInv, StreamInv
  <1>2. pending' = "master" => decision' = "none"
    BY <1>1 DEF Finalize, Settled, WalkInv
  <1>3. CASE err' # "none"
    <2>1. TellsLast
      BY <1>1, <1>3, Finalized
    <2> QED BY <1>1, <1>2, <1>3, <2>1, LastTold
  <1>4. CASE err' = "none"
    <2>1. call = "next" /\ call' = "next"
      BY <1>1, <1>4 DEF StreamInv, LeafStaysValid
    <2>2. events' = events
      <3>1. NothingToReport
        BY DEF FillEnds, WalkInv, StreamInv
      <3>2. \A q : FinalizeEOFResult(doc, q) # "none"
        BY ReasonsAreGiven
      <3> QED BY <1>1, <1>4, <3>1, <3>2 DEF Finalize, Fail, NothingToReport
    <2>3. \/ UNCHANGED <<open, pending, pendOpen>>
          \/ open' = ResolvedOpen /\ pending' = "none"
      BY <1>1, <1>4 DEF Finalize, Fail, Settled
    <2>4. Masters' = Masters
      <3>1. Masters = ResolvedOpen
        BY DefaultIsToDescend DEF WalkInv
      <3> QED BY <2>3, <3>1 DEF Masters
    <2> QED BY <1>2, <2>1, <2>2, <2>4, NothingTold
  <1> QED BY <1>3, <1>4

LEMMA ReadingStep == ASSUME WalkInv, Reading PROVE WalkInv'
  <1>1. StreamInv'
    BY StreamNextInv, CliStepIsStreamStep DEF WalkInv, CliNext
  <1>2. phase = "walking" /\ UNCHANGED commandVars
    BY DEF Reading
  <1>3. CASE PullAnswered
    <2>1. call = "next" /\ call' = "idle" /\ Answer
      BY <1>3 DEF PullAnswered
    <2>2. /\ TellsNothing \/ TellsLast \/ TellsEnd(Masters) \/ TellsNode(Masters)
          /\ pending' = "master" => decision' = "none"
      BY <2>1, WhatNextTells DEF WalkInv
    <2>3. TellsNothing => events' = events /\ Masters' = Masters
      BY DEF TellsNothing, Masters
    <2> QED BY <1>1, <1>2, <2>1, <2>2, <2>3, NothingTold, LastTold, ElementTold
  <1>4. CASE PullStarves
    <2>1. call = "next" /\ call' = call /\ events' = events
      BY <1>4 DEF PullStarves, NextResolveBlocked, NextNeedsMore
    <2>2. CASE NextResolveBlocked
      <3>1. UNCHANGED <<open, pending, pendOpen, decision>>
        BY <2>2 DEF NextResolveBlocked
      <3> QED BY <1>1, <1>2, <2>1, <3>1, NothingTold DEF WalkInv
    <2>3. CASE NextNeedsMore
      <3>1. open' = ResolvedOpen /\ pending' = "none"
        BY <2>3 DEF NextNeedsMore, Settled
      <3>2. Masters' = Masters
        BY <3>1, DefaultIsToDescend DEF Masters, WalkInv
      <3> QED BY <1>1, <1>2, <2>1, <3>1, <3>2, NothingTold
    <2> QED BY <1>4, <2>2, <2>3 DEF PullStarves
  <1>5. CASE PayloadStarves \/ FillReadsNothing \/ \E n \in 1..Documents[doc].len : FillReads(n)
    <2>1. UNCHANGED <<open, pending, pendOpen, decision, events, call>>
      BY <1>5 DEF PayloadStarves, FillReadsNothing, FillReads, FeedChunk, vars
    <2> QED BY <1>1, <1>2, <2>1, NothingTold DEF WalkInv
  <1>6. CASE FillEnds
    BY <1>1, <1>2, <1>6, FillEndsStep
  <1> QED BY <1>3, <1>4, <1>5, <1>6 DEF Reading

-----------------------------------------------------------------------------
(* The theorems.                                                           *)

LEMMA WalkInit == CliInit => WalkInv
  <1> SUFFICES ASSUME CliInit PROVE WalkInv
    OBVIOUS
  <1>1. StreamInv
    BY StreamInitInv DEF CliInit
  <1>2. << >> \in Seq(Lines) /\ Nested(<< >>)
    BY EmptySeq DEF Nested
  <1> QED BY <1>1, <1>2 DEF CliInit, StreamInit, Init, WalkInv

LEMMA WalkNext == WalkInv /\ [CliNext]_cliVars => WalkInv'
  <1> SUFFICES ASSUME WalkInv, [CliNext]_cliVars PROVE WalkInv'
    OBVIOUS
  <1>1. CASE UNCHANGED cliVars
    <2>1. UNCHANGED <<streamVars, command>> /\ UNCHANGED commandVars
      BY <1>1 DEF cliVars, commandVars
    <2>2. AllHandled' = AllHandled /\ OneInHand' = OneInHand
      BY <2>1, SameStream DEF AllHandled, OneInHand, ShownAs, commandVars
    <2> QED BY <2>1, <2>2, SameStream DEF WalkInv, commandVars
  <1> QED BY <1>1, OpenStep, AskNodeStep, ShowMasterStep, ShowEndStep, ShowHeaderStep,
             AskValueStep, ShowValueStep, OverStep, ReturnStep, ReadingStep DEF CliNext

LEMMA WalkCorrect == CliSpec => []WalkInv
  BY WalkInit, WalkNext, PTL DEF CliSpec

\* The stack of xml, which only ever follows the order of the events, holds the masters
\* the cursor holds: every end tag is that of the element that ended (xml.go, closeTop),
\* and what is closed after a failure is what was open.
THEOREM TagsFollowTheMasters == CliSpec => []TagsMirrorTheMasters
  <1>1. WalkInv => TagsMirrorTheMasters
    <2> SUFFICES ASSUME WalkInv, command = "xml", phase = "walking", handled = Len(events)
                 PROVE  tags = Ids(Masters)
      BY DEF TagsMirrorTheMasters, Ids
    <2>1. Len(events) \in Nat
      BY LenProperties DEF WalkInv, StreamInv, CursorInv, TypeOK
    <2> QED BY <2>1 DEF WalkInv, AllHandled, OneInHand, ShownAs
  <1> QED BY <1>1, WalkCorrect, PTL

\* A line of dump stands below the lines of the masters that enclose it, printed or lost
\* to the writer, to the end of the output (dump.go, the indentation by Depth).
THEOREM LinesFollowTheNesting == CliSpec => []IndentedAsNested
  <1>1. WalkInv => IndentedAsNested
    <2> SUFFICES ASSUME WalkInv, command = "dump"
                 PROVE  Nested(out) /\ DOMAIN out = 1..Len(out)
      BY DEF IndentedAsNested, Nested
    <2> QED BY LenProperties DEF WalkInv
  <1> QED BY <1>1, WalkCorrect, PTL

-----------------------------------------------------------------------------
(* What success means.                                                     *)

\* The end of the input was told last.
EndTold == events # << >> /\ Told.ev = "eof"

\* What becomes of the reader's end, and of a loop that comes to it.
EndInv ==
  /\ drained => p.fed = sourceEnd
  /\ eofRun => drained
  /\ walkErr # "ok"
  /\ phase = "closing" /\ walkErr = "none" => EndTold
  /\ result = "ok" => phase = "done" /\ EndTold

\* A cursor whose reader has ended moves no more.
LEMMA DrainedRests ==
  ASSUME StreamInv, drained, [StreamNext]_streamVars
  PROVE  p' = p
  <1>1. ~starved /\ CursorInv
    BY DEF StreamInv
  <1>2. CASE PullAnswered
    <2>1. CASE err # "none"
      BY <1>2, <2>1 DEF PullAnswered, Answer, NextAgain, NextResolveFails, NextDequeue, NextRunsEOF,
                  NextEOF, NextEnd, NextHeader, NextMalformed
    <2>2. CASE err = "none"
      <3>1. eofRun /\ ResolveResult = "ok" /\ ResolvedParser = p
        BY <1>1, <2>2, QuietAfterEOF, Resolving DEF StreamInv
      <3>2. closes = << >> => PeekResult(doc, ResolvedParser) = "NeedMoreData"
        BY <1>1, <2>2, <3>1, PeekedMore
      <3>3. NextAgain \/ NextDequeue \/ NextEOF
        BY <1>2, <3>1, <3>2 DEF PullAnswered, Answer, NextResolveFails, NextRunsEOF, NextEnd,
                          NextHeader, NextMalformed, Malformed, Misuse
      <3> QED BY <3>1, <3>3 DEF NextAgain, NextDequeue, DequeueClose, IssueEnd, NextEOF
    <2> QED BY <2>1, <2>2
  <1>3. CASE PayloadAnswered
    <2>1. held = "leaf"
      BY <1>3 DEF PayloadAnswered, StreamInv, LeafStaysValid
    <2> QED BY <2>1, QuietAfterEOF DEF StreamInv
  <1>4. CASE Decide \/ AskNext \/ AskPayload \/ UNCHANGED streamVars
    BY <1>4 DEF Decide, Descend, SkipSubtree, SkipLeaf, AskNext, AskPayload, streamVars, vars
  <1>5. ~PullStarves \/ UNCHANGED p
    <2>1. CASE err = "none"
      BY <2>1, QuietAfterEOF DEF PullStarves, NextResolveBlocked, NextNeedsMore, StreamInv
    <2>2. CASE err # "none"
      BY <2>2 DEF PullStarves, NextResolveBlocked, NextNeedsMore
    <2> QED BY <2>1, <2>2
  <1>6. PayloadStarves => UNCHANGED p
    BY DEF PayloadStarves, vars
  <1>7. ~Fill
    BY <1>1 DEF Fill, FillReads, FillReadsNothing, FillFails, FillEnds
  <1> QED BY <1>2, <1>3, <1>4, <1>5, <1>6, <1>7 DEF StreamNext, Calls

\* The reader ends where the source does, and only there is the end run.
LEMMA SourceRunsOut ==
  ASSUME StreamInv, EndInv, [StreamNext]_streamVars
  PROVE  (drained => p.fed = sourceEnd)' /\ (eofRun => drained)'
  <1>1. sourceEnd' = sourceEnd
    BY DEF StreamNext, Decide, AskNext, AskPayload, Calls, PullAnswered, PullStarves,
           PayloadAnswered, PayloadStarves, Fill, FillReads, FillReadsNothing, FillFails, FillEnds,
           streamVars
  <1>2. CASE FillEnds
    <2>1. Finalize /\ drained' = TRUE /\ p.fed = sourceEnd /\ err = "none" /\ CursorInv
      BY <1>2 DEF FillEnds, StreamInv
    <2>2. ResolveResult = "ok" => ResolvedParser.fed = p.fed
      BY <2>1, Resolving
    <2>3. \A q : FinalizeEOF(q).fed = q.fed
      BY DEF FinalizeEOF, At
    <2>4. p'.fed = p.fed
      BY <2>1, <2>2, <2>3 DEF Finalize
    <2> QED BY <1>1, <2>1, <2>4
  <1>3. CASE ~FillEnds
    <2>1. drained' = drained
      BY <1>3 DEF StreamNext, Decide, AskNext, AskPayload, Calls, PullAnswered, PullStarves,
             PayloadAnswered, PayloadStarves, Fill, FillReads, FillReadsNothing, FillFails,
             streamVars
    <2>2. eofRun' => eofRun \/ finalized
      <3>1. Answer => (eofRun' => eofRun \/ finalized)
        BY DEF Answer, NextAgain, NextResolveFails, NextDequeue, NextRunsEOF, NextEOF, NextEnd,
               NextHeader, NextMalformed
      <3>2. ~Answer => (eofRun' => eofRun \/ finalized)
        BY <1>3 DEF StreamNext, Decide, Descend, SkipSubtree, SkipLeaf, AskNext, AskPayload, Calls,
               PullAnswered, PullStarves, NextResolveBlocked, NextNeedsMore, PayloadAnswered, Payload,
               PayloadStarves, Fill, FillReads, FeedChunk, FillReadsNothing, FillFails, streamVars,
               vars
      <3> QED BY <3>1, <3>2
    <2>3. finalized = drained
      BY DEF StreamInv
    <2> QED BY <1>1, <2>1, <2>2, <2>3, DrainedRests DEF EndInv
  <1> QED BY <1>2, <1>3

LEMMA EndStep == ASSUME WalkInv, EndInv, [CliNext]_cliVars PROVE EndInv'
  <1>1. [StreamNext]_streamVars /\ StreamInv
    BY CliStepIsStreamStep DEF cliVars, WalkInv
  <1>2. (drained => p.fed = sourceEnd)' /\ (eofRun => drained)'
    BY <1>1, SourceRunsOut
  <1>3. UNCHANGED events => EndTold' = EndTold
    BY DEF EndTold, Told
  <1>4. CASE Open \/ AskNode \/ AskValue \/ Reading
    <2>1. phase \in {"opening", "walking"} /\ phase' # "closing" /\ result' # "ok" /\ walkErr' = walkErr
      BY <1>4 DEF Open, AskNode, AskValue, Pulled, Reading, commandVars, EndInv
    <2> QED BY <1>2, <2>1 DEF EndInv
  <1>5. CASE ShowMaster \/ ShowEnd \/ ShowHeader \/ ShowValue
    <2>1. phase = "walking" /\ result' = result
      <3>1. ShowValue => call = "payload"
        BY DEF ShowValue, PayloadAnswered
      <3> QED BY <1>5, <3>1 DEF ShowMaster, ShowEnd, ShowHeader, ShowValue, Pulled, Handled, WalkInv
    <2>2. walkErr' # "ok" /\ (phase' = "closing" => walkErr' # "none")
      BY <1>5, <2>1 DEF ShowMaster, ShowEnd, ShowHeader, ShowValue, ShownLeaf, BodyReturns, EndInv
    <2> QED BY <1>2, <2>1, <2>2 DEF EndInv
  <1>6. CASE WalkEnds
    <2>1. Told.ev = "eof" /\ Len(events) # 0 /\ phase = "walking"
      BY <1>6, PulledFacts DEF WalkEnds, WalkInv
    <2>2. events # << >> /\ UNCHANGED <<events, result, walkErr>>
      BY <1>6, <2>1 DEF WalkEnds, Handled, streamVars, vars
    <2> QED BY <1>2, <1>3, <2>1, <2>2 DEF EndInv, EndTold
  <1>7. CASE WalkFails \/ ReadFails
    <2>1. walkErr' \notin {"none", "ok"} /\ result' = result /\ phase # "done"
      <3>1. WalkFails => Told.why \notin {"none", "ok"} /\ phase = "walking"
        BY PulledFacts DEF WalkFails, OneInHand
      <3>2. ReadFails => phase = "walking"
        BY DEF ReadFails, FillFails, WalkInv, StreamInv
      <3> QED BY <1>7, <3>1, <3>2 DEF WalkFails, ReadFails, Handled
    <2> QED BY <1>2, <2>1 DEF EndInv
  <1>8. CASE Return
    <2>1. phase = "closing" /\ phase' = "done" /\ UNCHANGED events
      BY <1>8 DEF Return, streamVars, vars
    <2>2. walkErr' = walkErr /\ (result' = "ok" => walkErr = "none")
      BY <1>8 DEF Return, EndInv
    <2> QED BY <1>2, <1>3, <2>1, <2>2 DEF EndInv
  <1>9. CASE UNCHANGED cliVars
    BY <1>2, <1>3, <1>9 DEF cliVars, streamVars, vars, commandVars, EndInv
  <1> QED BY <1>4, <1>5, <1>6, <1>7, <1>8, <1>9 DEF CliNext

\* A command that returns no error was told the end of the input at the source's end,
\* with every byte accounted for: a source cut short, a payload missing, a failed read
\* and a refused token are all returned (dump.go, xml.go, what the commands return).
THEOREM SuccessIsComplete == CliSpec => []SuccessIsOfTheWhole
  <1>1. CliInit => EndInv
    BY DEF CliInit, StreamInit, Init, EndInv
  <1>2. WalkInv /\ EndInv /\ [CliNext]_cliVars => EndInv'
    BY EndStep
  <1>3. WalkInv /\ EndInv => SuccessIsOfTheWhole
    <2> SUFFICES ASSUME WalkInv, EndInv, result = "ok"
                 PROVE  Told.ev = "eof" /\ p.pos = sourceEnd
      BY DEF SuccessIsOfTheWhole
    <2>1. EndTold
      BY DEF EndInv
    <2>2. events \in Seq(Event)
      BY DEF WalkInv, StreamInv, CursorInv, TypeOK
    <2>3. Len(events) \in 1..Len(events) /\ events[Len(events)].ev = "eof"
      BY <2>1, <2>2, LenProperties, EmptySeq DEF EndTold, Told, Top
    <2>4. eofRun /\ p.pos = p.fed
      BY <2>3 DEF WalkInv, StreamInv, CursorInv, CleanEOF, EOFReported
    <2> QED BY <2>1, <2>4 DEF EndInv, EndTold
  <1> QED BY <1>1, <1>2, <1>3, WalkCorrect, PTL DEF CliSpec

-----------------------------------------------------------------------------
(* What the output holds.                                                  *)

Token == [token : {"start", "end", "line", "lost"}, id : ElementID \cup {Root}, depth : Nat]

\* What a reader can be inside of.
Names == ElementID \cup {Root, "broken"}

LEMMA AfterIsInside ==
  ASSUME NEW in \in Seq(Names), NEW t, t.id \in Names
  PROVE  After(in, t) \in Seq(Names)
  <1>1. Broken \in Seq(Names)
    <2> DEFINE S == Names
    <2>1. "broken" \in S
      BY DEF Names
    <2> HIDE DEF S
    <2>2. <<"broken">> \in Seq(S)
      BY <2>1
    <2> QED BY <2>2 DEF S, Broken
  <1>2. Append(in, t.id) \in Seq(Names)
    BY AppendProperties
  <1>3. in # << >> => Pop(in) \in Seq(Names)
    BY PopFacts
  <1> QED BY <1>1, <1>2, <1>3 DEF After

\* The function of Within has the values its definition gives it.
LEMMA WithinIs ==
  ASSUME NEW s \in Seq(Token)
  PROVE  \E w : /\ Within(s) = w[Len(s)] /\ w[0] = << >>
                /\ \A i \in 0..Len(s) : w[i] \in Seq(Names)
                /\ \A i \in 1..Len(s) : w[i] = After(w[i - 1], s[i])
  <1> DEFINE Value(w, i) == IF i = 0 THEN << >> ELSE After(w[i - 1], s[i])
             in == CHOOSE w : w = [i \in 0..Len(s) |-> Value(w, i)]
             steps == [i \in 1..Len(s) |-> [x \in Seq(Names) |-> After(x, s[i])]]
  <1>0. Len(s) \in Nat /\ \A i \in 1..Len(s) : s[i].id \in Names
    <2>1. Len(s) \in Nat /\ \A i \in 1..Len(s) : s[i] \in Token
      BY LenProperties, ElementOfSeq
    <2> QED BY <2>1 DEF Token, Names
  <1>1. PICK w : w = [i \in 0..Len(s) |-> w[i]] /\ Stepwise(w, Len(s), << >>, steps)
    <2> HIDE DEF steps
    <2> QED BY <1>0, StepFunction
  <1>2. w[0] = << >> /\ \A i \in 1..Len(s) : w[i] = steps[i][w[i - 1]]
    BY <1>1 DEF Stepwise
  <1>3. \A i \in 0..Len(s) : w[i] \in Seq(Names)
    <2> DEFINE S == {i \in 0..Len(s) : w[i] \in Seq(Names)}
    <2>1. 0 \in S
      <3>1. << >> \in Seq(Names) /\ 0 \in 0..Len(s)
        BY <1>0, EmptySeq
      <3>2. w[0] \in Seq(Names)
        BY <1>2, <3>1
      <3> QED BY <3>1, <3>2
    <2>2. ASSUME NEW i \in 1..Len(s), i - 1 \in S PROVE i \in S
      <3>1. w[i - 1] \in Seq(Names) /\ i \in 0..Len(s)
        BY <2>2, <1>0
      <3>2. w[i] = After(w[i - 1], s[i])
        BY <1>2, <3>1
      <3>3. After(w[i - 1], s[i]) \in Seq(Names)
        BY <1>0, <3>1, AfterIsInside
      <3> QED BY <3>1, <3>2, <3>3
    <2>3. 0..Len(s) \subseteq S
      <3> HIDE DEF S
      <3> QED BY <1>0, <2>1, <2>2, BoundedInduction
    <2> QED BY <2>3
  <1>4. \A i \in 1..Len(s) : w[i] = After(w[i - 1], s[i])
    <2> SUFFICES ASSUME NEW i \in 1..Len(s) PROVE w[i] = After(w[i - 1], s[i])
      OBVIOUS
    <2>1. w[i - 1] \in Seq(Names)
      BY <1>3, <1>0
    <2> QED BY <1>2, <2>1
  <1>5. w = [i \in 0..Len(s) |-> Value(w, i)]
    <2>1. \A i \in 0..Len(s) : w[i] = Value(w, i)
      BY <1>0, <1>2, <1>4
    <2>2. w = [i \in 0..Len(s) |-> w[i]]
      BY <1>1
    <2> HIDE DEF Value
    <2> QED BY <2>1, <2>2
  <1>6. in = [i \in 0..Len(s) |-> Value(in, i)]
    <2> HIDE DEF Value
    <2> QED BY <1>5, Zenon
  <1>7. Within(s) = in[Len(s)]
    BY Zenon DEF Within
  <1> HIDE DEF in, steps
  <1>8. in[0] = << >> /\ \A i \in 1..Len(s) : in[i] = After(in[i - 1], s[i])
    <2>1. \A i \in 0..Len(s) : in[i] = Value(in, i)
      <3> HIDE DEF Value
      <3> QED BY <1>6
    <2>2. 0 \in 0..Len(s) /\ \A i \in 1..Len(s) : i \in 0..Len(s) /\ i # 0
      BY <1>0
    <2> QED BY <2>1, <2>2
  <1>9. \A i \in 0..Len(s) : in[i] \in Seq(Names)
    <2> DEFINE S == {i \in 0..Len(s) : in[i] \in Seq(Names)}
    <2>1. 0 \in S
      <3>1. << >> \in Seq(Names) /\ 0 \in 0..Len(s)
        BY <1>0, EmptySeq
      <3>2. in[0] \in Seq(Names)
        BY <1>8, <3>1
      <3> QED BY <3>1, <3>2
    <2>2. ASSUME NEW i \in 1..Len(s), i - 1 \in S PROVE i \in S
      <3>1. in[i - 1] \in Seq(Names) /\ i \in 0..Len(s)
        BY <2>2, <1>0
      <3>2. After(in[i - 1], s[i]) \in Seq(Names)
        BY <1>0, <3>1, AfterIsInside
      <3> QED BY <1>8, <3>1, <3>2
    <2>3. 0..Len(s) \subseteq S
      <3> HIDE DEF S
      <3> QED BY <1>0, <2>1, <2>2, BoundedInduction
    <2> QED BY <2>3
  <1> QED BY <1>7, <1>8, <1>9

\* One token more leads from what its reader was inside of.
LEMMA WithinOfAppended ==
  ASSUME NEW s \in Seq(Token), NEW t \in Token
  PROVE  /\ Within(s) \in Seq(Names)
         /\ Within(Append(s, t)) = After(Within(s), t)
  <1> DEFINE more == Append(s, t)
             n == Len(s)
  <1>1. /\ more \in Seq(Token) /\ Len(more) = n + 1 /\ n \in Nat
        /\ \A i \in 1..n : more[i] = s[i]
        /\ more[n + 1] = t
    BY AppendProperties, LenProperties
  <1>2. PICK w : /\ Within(s) = w[n] /\ w[0] = << >>
                 /\ \A i \in 0..n : w[i] \in Seq(Names)
                 /\ \A i \in 1..n : w[i] = After(w[i - 1], s[i])
    BY WithinIs
  <1> HIDE DEF more
  <1>3. PICK v : /\ Within(more) = v[Len(more)] /\ v[0] = << >>
                 /\ \A i \in 1..Len(more) : v[i] = After(v[i - 1], more[i])
    BY <1>1, WithinIs
  <1> HIDE DEF n
  <1>4. \A i \in 0..n : v[i] = w[i]
    <2> DEFINE S == {i \in 0..n : v[i] = w[i]}
    <2>1. 0 \in S
      BY <1>1, <1>2, <1>3
    <2>2. ASSUME NEW i \in 1..n, i - 1 \in S PROVE i \in S
      <3>1. v[i - 1] = w[i - 1] /\ i \in 1..Len(more) /\ i \in 0..n
        BY <1>1, <2>2
      <3>2. v[i] = After(v[i - 1], more[i]) /\ w[i] = After(w[i - 1], s[i]) /\ more[i] = s[i]
        BY <1>1, <1>2, <1>3, <3>1
      <3> QED BY <3>1, <3>2
    <2>3. 0..n \subseteq S
      <3> HIDE DEF S
      <3> QED BY <1>1, <2>1, <2>2, BoundedInduction
    <2> QED BY <2>3
  <1>5. n + 1 \in 1..Len(more) /\ (n + 1) - 1 = n /\ n \in 0..n
    BY <1>1
  <1>6. Within(more) = After(v[n], t)
    BY <1>1, <1>3, <1>5
  <1> QED BY <1>2, <1>4, <1>5, <1>6 DEF more, n

\* The IDs marked are of S.
MarkedIn(s, marked, S) == \A i \in 1..Len(s) : i \in marked => s[i].id \in S

\* w has the IDs marked up to each place.
Collects(w, s, marked, S) ==
  /\ w[0] = << >>
  /\ \A i \in 0..Len(s) : w[i] \in Seq(S)
  /\ \A i \in 1..Len(s) :
       w[i] = IF i \in marked THEN Append(w[i - 1], s[i].id) ELSE w[i - 1]

\* The function of IdsAt has the values its definition gives it.
LEMMA IdsAtIs ==
  ASSUME NEW s, Len(s) \in Nat, NEW marked, NEW S, MarkedIn(s, marked, S)
  PROVE  \E w : IdsAt(s, marked) = w[Len(s)] /\ Collects(w, s, marked, S)
  <1> DEFINE Step(x, i) == IF i \in marked THEN Append(x, s[i].id) ELSE x
             Value(w, i) == IF i = 0 THEN << >>
                            ELSE IF i \in marked THEN Append(w[i - 1], s[i].id)
                            ELSE w[i - 1]
             in == CHOOSE w : w = [i \in 0..Len(s) |-> Value(w, i)]
             steps == [i \in 1..Len(s) |-> [x \in Seq(S) |-> Step(x, i)]]
  <1>0. \A i \in 1..Len(s), x \in Seq(S) : Step(x, i) \in Seq(S)
    BY AppendProperties DEF MarkedIn
  <1>0a. \A w : \A i \in 1..Len(s) : Value(w, i) = Step(w[i - 1], i)
    OBVIOUS
  <1>0b. \A w : Value(w, 0) = << >>
    OBVIOUS
  <1> HIDE DEF Step
  <1>1. PICK w : w = [i \in 0..Len(s) |-> w[i]] /\ Stepwise(w, Len(s), << >>, steps)
    <2> HIDE DEF steps
    <2> QED BY StepFunction
  <1>2. w[0] = << >> /\ \A i \in 1..Len(s) : w[i] = steps[i][w[i - 1]]
    BY <1>1 DEF Stepwise
  <1>3. \A i \in 0..Len(s) : w[i] \in Seq(S)
    <2> DEFINE T == {i \in 0..Len(s) : w[i] \in Seq(S)}
    <2>1. 0 \in T
      <3>1. << >> \in Seq(S) /\ 0 \in 0..Len(s)
        BY EmptySeq
      <3>2. w[0] \in Seq(S)
        BY <1>2, <3>1
      <3> QED BY <3>1, <3>2
    <2>2. ASSUME NEW i \in 1..Len(s), i - 1 \in T PROVE i \in T
      <3>1. w[i - 1] \in Seq(S) /\ i \in 0..Len(s)
        BY <2>2
      <3>2. w[i] = Step(w[i - 1], i)
        BY <1>2, <3>1
      <3>3. Step(w[i - 1], i) \in Seq(S)
        BY <1>0, <3>1
      <3> QED BY <3>1, <3>2, <3>3
    <2>3. 0..Len(s) \subseteq T
      <3> HIDE DEF T
      <3> QED BY <2>1, <2>2, BoundedInduction
    <2> QED BY <2>3
  <1>4. \A i \in 1..Len(s) : w[i] = Step(w[i - 1], i)
    <2> SUFFICES ASSUME NEW i \in 1..Len(s) PROVE w[i] = Step(w[i - 1], i)
      OBVIOUS
    <2>1. w[i - 1] \in Seq(S)
      BY <1>3
    <2> QED BY <1>2, <2>1
  <1>5. w = [i \in 0..Len(s) |-> Value(w, i)]
    <2> HIDE DEF Value
    <2>1. \A i \in 0..Len(s) : w[i] = Value(w, i)
      <3> SUFFICES ASSUME NEW i \in 0..Len(s) PROVE w[i] = Value(w, i)
        OBVIOUS
      <3>1. i = 0 \/ i \in 1..Len(s)
        OBVIOUS
      <3> QED BY <1>0a, <1>0b, <1>2, <1>4, <3>1
    <2>2. w = [i \in 0..Len(s) |-> w[i]]
      BY <1>1
    <2> QED BY <2>1, <2>2
  <1>6. in = [i \in 0..Len(s) |-> Value(in, i)]
    <2> HIDE DEF Value
    <2> QED BY <1>5, Zenon
  <1>7. IdsAt(s, marked) = in[Len(s)]
    BY Zenon DEF IdsAt
  <1> HIDE DEF in, steps, Value
  <1>8. in[0] = << >> /\ \A i \in 1..Len(s) : in[i] = Step(in[i - 1], i)
    <2>1. \A i \in 0..Len(s) : in[i] = Value(in, i)
      BY <1>6
    <2>2. 0 \in 0..Len(s) /\ \A i \in 1..Len(s) : i \in 0..Len(s)
      OBVIOUS
    <2> QED BY <1>0a, <1>0b, <2>1, <2>2
  <1>9. \A i \in 0..Len(s) : in[i] \in Seq(S)
    <2> DEFINE T == {i \in 0..Len(s) : in[i] \in Seq(S)}
    <2>1. 0 \in T
      <3>1. << >> \in Seq(S) /\ 0 \in 0..Len(s)
        BY EmptySeq
      <3>2. in[0] \in Seq(S)
        BY <1>8, <3>1
      <3> QED BY <3>1, <3>2
    <2>2. ASSUME NEW i \in 1..Len(s), i - 1 \in T PROVE i \in T
      <3>1. in[i - 1] \in Seq(S) /\ i \in 0..Len(s)
        BY <2>2
      <3>2. Step(in[i - 1], i) \in Seq(S)
        BY <1>0, <3>1
      <3> QED BY <1>8, <3>1, <3>2
    <2>3. 0..Len(s) \subseteq T
      <3> HIDE DEF T
      <3> QED BY <2>1, <2>2, BoundedInduction
    <2> QED BY <2>3
  <1> QED BY <1>7, <1>8, <1>9 DEF Step, Collects

\* The same of the sequence are marked.
SameMarks(s, marks, more) == \A i \in 1..Len(s) : i \in marks <=> i \in more

\* One more of a sequence adds its ID, if it is marked.
LEMMA IdsOfAppended ==
  ASSUME NEW U, NEW s \in Seq(U), NEW e \in U, NEW marks, NEW more, NEW S,
         SameMarks(s, marks, more), MarkedIn(s, marks, S),
         Len(s) + 1 \in more => e.id \in S
  PROVE  /\ IdsAt(s, marks) \in Seq(S)
         /\ IdsAt(Append(s, e), more) =
              IF Len(s) + 1 \in more THEN Append(IdsAt(s, marks), e.id) ELSE IdsAt(s, marks)
  <1> DEFINE t == Append(s, e)
             n == Len(s)
             Step(x, r, i, marked) == IF i \in marked THEN Append(x, r[i].id) ELSE x
  <1>1. /\ t \in Seq(U) /\ Len(t) = n + 1 /\ n \in Nat
        /\ \A i \in 1..n : t[i] = s[i]
        /\ t[n + 1] = e
    BY AppendProperties, LenProperties
  <1> HIDE DEF t
  <1>2. PICK w : IdsAt(s, marks) = w[n] /\ Collects(w, s, marks, S)
    BY <1>1, IdsAtIs
  <1>3. PICK v : IdsAt(t, more) = v[Len(t)] /\ Collects(v, t, more, S)
    <2>1. MarkedIn(t, more, S)
      <3> SUFFICES ASSUME NEW i \in 1..Len(t), i \in more PROVE t[i].id \in S
        BY DEF MarkedIn
      <3>1. i \in 1..n \/ i = n + 1
        BY <1>1
      <3> QED BY <1>1, <3>1 DEF MarkedIn, SameMarks
    <2>2. Len(t) \in Nat
      BY <1>1
    <2> QED BY <2>1, <2>2, IdsAtIs
  <1>2a. /\ w[0] = << >> /\ \A i \in 0..n : w[i] \in Seq(S)
         /\ \A i \in 1..n : w[i] = Step(w[i - 1], s, i, marks)
    BY <1>2 DEF Collects
  <1>3a. /\ v[0] = << >>
         /\ \A i \in 1..Len(t) : v[i] = Step(v[i - 1], t, i, more)
    BY <1>3 DEF Collects
  <1>4. \A i \in 1..n : \A x : Step(x, t, i, more) = Step(x, s, i, marks)
    BY <1>1 DEF SameMarks
  <1>5. \A x : Step(x, t, n + 1, more) = IF n + 1 \in more THEN Append(x, e.id) ELSE x
    BY <1>1
  <1> HIDE DEF Step
  <1>6. \A i \in 0..n : v[i] = w[i]
    <2> DEFINE T == {i \in 0..n : v[i] = w[i]}
    <2>1. 0 \in T
      BY <1>1, <1>2a, <1>3a
    <2>2. ASSUME NEW i \in 1..n, i - 1 \in T PROVE i \in T
      <3>1. v[i - 1] = w[i - 1] /\ i \in 1..Len(t) /\ i \in 0..n
        BY <1>1, <2>2
      <3>2. v[i] = Step(v[i - 1], t, i, more) /\ w[i] = Step(w[i - 1], s, i, marks)
        BY <1>2a, <1>3a, <3>1
      <3> QED BY <1>4, <3>1, <3>2
    <2>3. 0..n \subseteq T
      <3> HIDE DEF T
      <3> QED BY <1>1, <2>1, <2>2, BoundedInduction
    <2> QED BY <2>3
  <1>7. n + 1 \in 1..Len(t) /\ (n + 1) - 1 = n /\ n \in 0..n
    BY <1>1
  <1>8. IdsAt(t, more) = Step(v[n], t, n + 1, more)
    BY <1>1, <1>3, <1>3a, <1>7
  <1>9. IdsAt(s, marks) = v[n]
    BY <1>2, <1>6, <1>7
  <1>10. IdsAt(s, marks) \in Seq(S)
    BY <1>2, <1>2a, <1>7
  <1> QED BY <1>5, <1>8, <1>9, <1>10 DEF t, n

\* The elements among tokens, and among events.
ShownIn(s) == IdsAt(s, {i \in DOMAIN s : s[i].token # "end" /\ s[i].id # Root})

ToldIn(s) == IdsAt(s, {i \in DOMAIN s : s[i].ev \in {"master", "leaf"}})

LEMMA ShownMore ==
  ASSUME NEW s \in Seq(Token), NEW t \in Token
  PROVE  /\ ShownIn(s) \in Seq(ElementID)
         /\ ShownIn(Append(s, t)) =
              IF t.token # "end" /\ t.id # Root THEN Append(ShownIn(s), t.id) ELSE ShownIn(s)
  <1> DEFINE u == Append(s, t)
             marks == {i \in DOMAIN s : s[i].token # "end" /\ s[i].id # Root}
             more == {i \in DOMAIN u : u[i].token # "end" /\ u[i].id # Root}
  <1>1. /\ u \in Seq(Token) /\ Len(u) = Len(s) + 1 /\ Len(s) \in Nat
        /\ \A i \in 1..Len(s) : u[i] = s[i]
        /\ u[Len(s) + 1] = t
        /\ DOMAIN u = 1..(Len(s) + 1) /\ DOMAIN s = 1..Len(s)
    BY AppendProperties, LenProperties
  <1>2. \A i \in 1..Len(s) : s[i] \in Token
    BY ElementOfSeq
  <1> HIDE DEF u
  <1>3. SameMarks(s, marks, more)
    BY <1>1 DEF SameMarks
  <1>4. MarkedIn(s, marks, ElementID)
    BY <1>2 DEF Token, MarkedIn
  <1>5. Len(s) + 1 \in more <=> (t.token # "end" /\ t.id # Root)
    BY <1>1
  <1>6. Len(s) + 1 \in more => t.id \in ElementID
    BY <1>5 DEF Token
  <1> HIDE DEF marks, more
  <1>7. /\ IdsAt(s, marks) \in Seq(ElementID)
        /\ IdsAt(Append(s, t), more) =
              IF Len(s) + 1 \in more THEN Append(IdsAt(s, marks), t.id) ELSE IdsAt(s, marks)
    BY <1>3, <1>4, <1>6, IdsOfAppended
  <1>8. ShownIn(s) = IdsAt(s, marks) /\ ShownIn(Append(s, t)) = IdsAt(Append(s, t), more)
    BY DEF ShownIn, marks, more, u
  <1> QED BY <1>5, <1>7, <1>8

LEMMA ToldMore ==
  ASSUME NEW s \in Seq(Event), NEW e \in Event
  PROVE  ToldIn(Append(s, e)) =
           IF e.ev \in {"master", "leaf"} THEN Append(ToldIn(s), e.id) ELSE ToldIn(s)
  <1> DEFINE u == Append(s, e)
             S == ElementID \cup {"none"}
             marks == {i \in DOMAIN s : s[i].ev \in {"master", "leaf"}}
             more == {i \in DOMAIN u : u[i].ev \in {"master", "leaf"}}
  <1>1. /\ u \in Seq(Event) /\ Len(u) = Len(s) + 1 /\ Len(s) \in Nat
        /\ \A i \in 1..Len(s) : u[i] = s[i]
        /\ u[Len(s) + 1] = e
        /\ DOMAIN u = 1..(Len(s) + 1) /\ DOMAIN s = 1..Len(s)
    BY AppendProperties, LenProperties
  <1>2. \A i \in 1..Len(s) : s[i] \in Event
    BY ElementOfSeq
  <1> HIDE DEF u
  <1>3. SameMarks(s, marks, more)
    BY <1>1 DEF SameMarks
  <1>4. MarkedIn(s, marks, S)
    BY <1>2 DEF Event, MarkedIn
  <1>5. Len(s) + 1 \in more <=> e.ev \in {"master", "leaf"}
    BY <1>1
  <1>6. Len(s) + 1 \in more => e.id \in S
    BY <1>5 DEF Event
  <1> HIDE DEF marks, more, S
  <1>7. IdsAt(Append(s, e), more) =
              IF Len(s) + 1 \in more THEN Append(IdsAt(s, marks), e.id) ELSE IdsAt(s, marks)
    BY <1>3, <1>4, <1>6, IdsOfAppended
  <1>8. ToldIn(s) = IdsAt(s, marks) /\ ToldIn(Append(s, e)) = IdsAt(Append(s, e), more)
    BY DEF ToldIn, marks, more, u
  <1> QED BY <1>5, <1>7, <1>8

\* Nothing is shown of nothing.
LEMMA NothingIsShown == ShownIn(<< >>) = << >> /\ ToldIn(<< >>) = << >> /\ Within(<< >>) = << >>
  <1>1. Len(<< >>) = 0 /\ << >> \in Seq(Token)
    BY EmptySeq
  <1>2. \A marked : IdsAt(<< >>, marked) = << >>
    <2> SUFFICES ASSUME NEW marked PROVE IdsAt(<< >>, marked) = << >>
      OBVIOUS
    <2>1. MarkedIn(<< >>, marked, ElementID)
      BY <1>1 DEF MarkedIn
    <2>2. PICK w : IdsAt(<< >>, marked) = w[0] /\ Collects(w, << >>, marked, ElementID)
      BY <1>1, <2>1, IdsAtIs
    <2> QED BY <2>2 DEF Collects
  <1>3. Within(<< >>) = << >>
    BY <1>1, WithinIs
  <1> QED BY <1>2, <1>3 DEF ShownIn, ToldIn

\* A document that has begun and is not complete, in which a reader is inside of in.
Begun(s, in) ==
  /\ s \in Seq(Token) /\ Len(s) > 0 /\ s[1] = Start(Root) /\ Within(s) = in
  /\ \A n \in 1..Len(s) : Within(SubSeq(s, 1, n)) # << >>

Finished(s) ==
  /\ Within(s) = << >> /\ Head(s) = Start(Root)
  /\ \A n \in 1..(Len(s) - 1) : Within(SubSeq(s, 1, n)) # << >>

\* The beginnings of a sequence and of one that goes on.
LEMMA FirstOfAppended ==
  ASSUME NEW S, NEW s \in Seq(S), NEW t \in S
  PROVE  /\ \A n \in 1..Len(s) : SubSeq(Append(s, t), 1, n) = SubSeq(s, 1, n)
         /\ SubSeq(Append(s, t), 1, Len(s) + 1) = Append(s, t)
  <1> DEFINE u == Append(s, t)
  <1>1. /\ u \in Seq(S) /\ Len(u) = Len(s) + 1 /\ Len(s) \in Nat
        /\ \A i \in 1..Len(s) : u[i] = s[i]
    BY AppendProperties, LenProperties
  <1> HIDE DEF u
  <1>2. ASSUME NEW n \in 1..Len(s) PROVE SubSeq(u, 1, n) = SubSeq(s, 1, n)
    <2> DEFINE a == SubSeq(u, 1, n)
               b == SubSeq(s, 1, n)
    <2>1. a \in Seq(S) /\ Len(a) = n /\ \A i \in 1..n : a[i] = u[i]
      BY <1>1
    <2>2. b \in Seq(S) /\ Len(b) = n /\ \A i \in 1..n : b[i] = s[i]
      BY <1>1
    <2>3. \A i \in 1..n : u[i] = s[i]
      BY <1>1
    <2> HIDE DEF a, b
    <2>4. Len(a) = Len(b) /\ \A i \in 1..Len(a) : a[i] = b[i]
      BY <2>1, <2>2, <2>3
    <2>5. a = b
      BY <2>1, <2>2, <2>4, SeqEqual
    <2> QED BY <2>5 DEF a, b
  <1>3. SubSeq(u, 1, Len(s) + 1) = u
    <2> DEFINE a == SubSeq(u, 1, Len(s) + 1)
    <2>1. a \in Seq(S) /\ Len(a) = Len(u) /\ \A i \in 1..Len(a) : a[i] = u[i]
      BY <1>1
    <2> HIDE DEF a
    <2>2. a = u
      BY <1>1, <2>1, SeqEqual
    <2> QED BY <2>2 DEF a
  <1> QED BY <1>2, <1>3 DEF u

LEMMA BegunGoesOn ==
  ASSUME NEW s, NEW in, Begun(s, in), NEW t \in Token
  PROVE  /\ After(in, t) # << >> => Begun(Append(s, t), After(in, t))
         /\ After(in, t) = << >> => Finished(Append(s, t))
  <1> DEFINE u == Append(s, t)
  <1>1. s \in Seq(Token) /\ Len(s) \in Nat /\ Len(s) > 0 /\ s[1] = Start(Root) /\ Within(s) = in
    BY LenProperties DEF Begun
  <1>2. /\ u \in Seq(Token) /\ Len(u) = Len(s) + 1
        /\ u[1] = Start(Root) /\ Head(u) = Start(Root)
    <2>1. /\ u \in Seq(Token) /\ Len(u) = Len(s) + 1
          /\ \A i \in 1..Len(s) : u[i] = s[i]
      BY <1>1, AppendProperties
    <2>2. 1 \in 1..Len(s)
      BY <1>1
    <2>3. u[1] = s[1]
      BY <2>1, <2>2
    <2> HIDE DEF u
    <2>4. Head(u) = u[1]
      BY <2>1, <1>1
    <2> QED BY <1>1, <2>1, <2>3, <2>4
  <1>3. Within(u) = After(in, t)
    BY <1>1, WithinOfAppended
  <1>4. /\ \A n \in 1..Len(s) : SubSeq(u, 1, n) = SubSeq(s, 1, n)
        /\ SubSeq(u, 1, Len(s) + 1) = u
    BY <1>1, FirstOfAppended
  <1> HIDE DEF u
  <1>5. \A n \in 1..Len(s) : Within(SubSeq(u, 1, n)) # << >>
    BY <1>4 DEF Begun
  <1>6. CASE After(in, t) # << >>
    <2>1. \A n \in 1..Len(u) : Within(SubSeq(u, 1, n)) # << >>
      <3> SUFFICES ASSUME NEW n \in 1..Len(u) PROVE Within(SubSeq(u, 1, n)) # << >>
        OBVIOUS
      <3>1. n \in 1..Len(s) \/ n = Len(s) + 1
        BY <1>1, <1>2
      <3> QED BY <1>3, <1>4, <1>5, <1>6, <3>1
    <2>2. Begun(u, After(in, t))
      BY <1>1, <1>2, <1>3, <2>1 DEF Begun
    <2> QED BY <1>6, <2>2 DEF u
  <1>7. CASE After(in, t) = << >>
    <2>1. Len(u) - 1 = Len(s)
      BY <1>1, <1>2
    <2>2. Finished(u)
      BY <1>2, <1>3, <1>5, <1>7, <2>1 DEF Finished
    <2> QED BY <1>7, <2>2 DEF u
  <1> QED BY <1>6, <1>7

\* What a reader is inside of, when the tags are open.
Stack(s) == <<Root>> \o s

LEMMA StackOf ==
  ASSUME NEW s \in Seq(ElementID)
  PROVE  /\ Stack(s) \in Seq(ElementID \cup {Root}) /\ Len(Stack(s)) = Len(s) + 1
         /\ Stack(s)[1] = Root /\ \A i \in 1..Len(s) : Stack(s)[i + 1] = s[i]
         /\ Stack(s) # Broken /\ Stack(s) # << >> /\ Len(s) \in Nat
  <1> DEFINE S == ElementID \cup {Root}
             r == <<Root>>
  <1>1. Root \in S /\ s \in Seq(S) /\ Len(s) \in Nat
    <2>1. Len(s) \in Nat /\ s \in [1..Len(s) -> ElementID]
      BY LenProperties
    <2>2. s \in [1..Len(s) -> S]
      BY <2>1
    <2> HIDE DEF S
    <2>3. s \in Seq(S)
      BY <2>1, <2>2, SeqDef
    <2> QED BY <2>1, <2>3 DEF S
  <1> HIDE DEF S
  <1>2. r \in Seq(S) /\ Len(r) = 1 /\ r[1] = Root
    BY <1>1
  <1> HIDE DEF r
  <1>3. /\ r \o s \in Seq(S) /\ Len(r \o s) = Len(s) + 1
        /\ (r \o s)[1] = Root /\ \A i \in 1..Len(s) : (r \o s)[i + 1] = s[i]
    <2>1. /\ r \o s \in Seq(S) /\ Len(r \o s) = 1 + Len(s)
          /\ \A i \in 1..(1 + Len(s)) : (r \o s)[i] = IF i <= 1 THEN r[i] ELSE s[i - 1]
      BY <1>1, <1>2, ConcatProperties, SMTT(30)
    <2>2. ASSUME NEW i \in 1..Len(s) PROVE (r \o s)[i + 1] = s[i]
      <3>1. i + 1 \in 1..(1 + Len(s)) /\ ~(i + 1 <= 1) /\ (i + 1) - 1 = i
        BY <1>1
      <3> QED BY <2>1, <3>1
    <2>3. (r \o s)[1] = Root
      <3>1. 1 \in 1..(1 + Len(s)) /\ 1 <= 1
        BY <1>1
      <3> QED BY <1>2, <2>1, <3>1
    <2>4. 1 + Len(s) = Len(s) + 1
      BY <1>1
    <2> QED BY <2>1, <2>2, <2>3, <2>4
  <1>4. Stack(s) = r \o s
    BY DEF Stack, r
  <1>5. Stack(s) # << >>
    BY <1>1, <1>3, <1>4, EmptySeq
  <1>6. Stack(s) # Broken
    <2>1. Broken[1] = "broken" /\ Root # "broken"
      BY DEF Broken, Root
    <2> QED BY <1>3, <1>4, <2>1
  <1> QED BY <1>1, <1>3, <1>4, <1>5, <1>6 DEF S

\* Two stacks of the same tags.
LEMMA StacksAreEqual ==
  ASSUME NEW s \in Seq(ElementID), NEW r \in Seq(ElementID \cup {Root}),
         Len(r) = Len(s) + 1, r[1] = Root, \A i \in 1..Len(s) : r[i + 1] = s[i]
  PROVE  r = Stack(s)
  <1>1. /\ Stack(s) \in Seq(ElementID \cup {Root}) /\ Len(Stack(s)) = Len(s) + 1 /\ Len(s) \in Nat
        /\ Stack(s)[1] = Root /\ \A i \in 1..Len(s) : Stack(s)[i + 1] = s[i]
    BY StackOf
  <1>2. ASSUME NEW i \in 1..Len(r) PROVE r[i] = Stack(s)[i]
    <2>1. CASE i = 1
      BY <1>1, <2>1
    <2>2. CASE i # 1
      <3>1. i - 1 \in 1..Len(s) /\ (i - 1) + 1 = i
        BY <1>1, <2>2
      <3> QED BY <1>1, <3>1
    <2> QED BY <2>1, <2>2
  <1> QED BY <1>1, <1>2, SeqEqual

\* An element opened is the innermost.
LEMMA StackGrows ==
  ASSUME NEW s \in Seq(ElementID), NEW id \in ElementID
  PROVE  After(Stack(s), Start(id)) = Stack(Append(s, id))
  <1> DEFINE t == Append(s, id)
             r == Append(Stack(s), id)
  <1>1. /\ Stack(s) \in Seq(ElementID \cup {Root}) /\ Len(Stack(s)) = Len(s) + 1 /\ Len(s) \in Nat
        /\ Stack(s)[1] = Root /\ \A i \in 1..Len(s) : Stack(s)[i + 1] = s[i]
        /\ Stack(s) # Broken
    BY StackOf
  <1>2. After(Stack(s), Start(id)) = r
    BY <1>1 DEF After, Start
  <1>3. /\ t \in Seq(ElementID) /\ Len(t) = Len(s) + 1
        /\ \A i \in 1..Len(s) : t[i] = s[i]
        /\ t[Len(s) + 1] = id
    BY AppendProperties
  <1>4. /\ r \in Seq(ElementID \cup {Root}) /\ Len(r) = Len(Stack(s)) + 1
        /\ \A i \in 1..Len(Stack(s)) : r[i] = Stack(s)[i]
        /\ r[Len(Stack(s)) + 1] = id
    BY <1>1, AppendProperties
  <1> HIDE DEF t, r
  <1>5. Len(r) = Len(t) + 1 /\ r[1] = Root
    BY <1>1, <1>3, <1>4
  <1>6. ASSUME NEW i \in 1..Len(t) PROVE r[i + 1] = t[i]
    <2>1. CASE i \in 1..Len(s)
      BY <1>1, <1>3, <1>4, <2>1
    <2>2. CASE i = Len(s) + 1
      BY <1>1, <1>3, <1>4, <2>2
    <2> QED BY <1>1, <1>3, <2>1, <2>2
  <1>7. r = Stack(t)
    BY <1>3, <1>4, <1>5, <1>6, StacksAreEqual
  <1> QED BY <1>2, <1>7 DEF t

\* The innermost closed is what was below it.
LEMMA StackShrinks ==
  ASSUME NEW s \in Seq(ElementID), s # << >>
  PROVE  After(Stack(s), End(Top(s))) = Stack(Pop(s))
  <1> DEFINE t == Pop(s)
             r == Pop(Stack(s))
  <1>1. /\ Stack(s) \in Seq(ElementID \cup {Root}) /\ Len(Stack(s)) = Len(s) + 1 /\ Len(s) \in Nat
        /\ Stack(s)[1] = Root /\ \A i \in 1..Len(s) : Stack(s)[i + 1] = s[i]
        /\ Stack(s) # Broken /\ Stack(s) # << >>
    BY StackOf
  <1>2. /\ t \in Seq(ElementID) /\ Len(t) = Len(s) - 1 /\ \A i \in 1..(Len(s) - 1) : t[i] = s[i]
        /\ Len(s) \in 1..Len(s)
    BY PopFacts
  <1>3. Top(Stack(s)) = Top(s)
    BY <1>1, <1>2 DEF Top
  <1>4. After(Stack(s), End(Top(s))) = r
    <2>1. End(Top(s)).token = "end" /\ End(Top(s)).id = Top(s)
      BY DEF End
    <2> HIDE DEF r
    <2> QED BY <1>1, <1>3, <2>1 DEF After, r
  <1>5. /\ r \in Seq(ElementID \cup {Root}) /\ Len(r) = Len(Stack(s)) - 1
        /\ \A i \in 1..(Len(Stack(s)) - 1) : r[i] = Stack(s)[i]
    BY <1>1, PopFacts
  <1> HIDE DEF t, r
  <1>6. Len(r) = Len(t) + 1 /\ r[1] = Root
    BY <1>1, <1>2, <1>5
  <1>7. ASSUME NEW i \in 1..Len(t) PROVE r[i + 1] = t[i]
    <2>1. i \in 1..Len(s) /\ i \in 1..(Len(s) - 1) /\ i + 1 \in 1..(Len(Stack(s)) - 1)
      BY <1>1, <1>2
    <2> QED BY <1>1, <1>2, <1>5, <2>1
  <1>8. r = Stack(t)
    BY <1>2, <1>5, <1>6, <1>7, StacksAreEqual
  <1> QED BY <1>4, <1>8 DEF t

\* With no element open there is the root, and with it closed nothing.
LEMMA StackEnds ==
  /\ After(Stack(<< >>), End(Root)) = << >>
  /\ After(<< >>, Start(Root)) = Stack(<< >>)
  <1> DEFINE r == Stack(<< >>)
  <1>0. << >> \in Seq(ElementID) /\ Len(<< >>) = 0
    BY EmptySeq
  <1>1. /\ r \in Seq(ElementID \cup {Root}) /\ Len(r) = 1 /\ r[1] = Root /\ r # Broken /\ r # << >>
    <2> DEFINE e == << >>
    <2>1. e \in Seq(ElementID) /\ Len(e) = 0
      BY <1>0
    <2> HIDE DEF e
    <2>2. Stack(e) \in Seq(ElementID \cup {Root}) /\ Len(Stack(e)) = Len(e) + 1
          /\ Stack(e)[1] = Root /\ Stack(e) # Broken /\ Stack(e) # << >>
      BY <2>1, StackOf
    <2>3. Len(Stack(e)) = 1
      BY <2>1, <2>2
    <2> QED BY <2>2, <2>3 DEF e
  <1> HIDE DEF r
  <1>2. Pop(r) \in Seq(ElementID \cup {Root}) /\ Len(Pop(r)) = 0
    BY <1>1, PopFacts
  <1>3. Pop(r) = << >>
    BY <1>2, EmptySeq
  <1>4. After(r, End(Root)) = << >>
    BY <1>1, <1>3 DEF After, End, Top
  <1>5. After(<< >>, Start(Root)) = r
    <2> DEFINE a == Append(<< >>, Root)
    <2>1. a = <<Root>>
      OBVIOUS
    <2>2. << >> # Broken
      BY DEF Broken
    <2>3. r = <<Root>> \o << >> /\ <<Root>> \o << >> = <<Root>>
      BY DEF r, Stack
    <2> QED BY <2>1, <2>2, <2>3 DEF After, Start
  <1> QED BY <1>4, <1>5 DEF r

\* A sequence taken on by another, to its i-th.
To(a, b, i) == a \o SubSeq(b, 1, i)

LEMMA TakenOn ==
  ASSUME NEW S, NEW a \in Seq(S), NEW b \in Seq(S)
  PROVE  /\ To(a, b, 0) = a
         /\ \A i \in 1..Len(b) : To(a, b, i) = Append(To(a, b, i - 1), b[i])
  <1> DEFINE part(i) == SubSeq(b, 1, i)
  <1>1. Len(a) \in Nat /\ Len(b) \in Nat /\ \A i \in 1..Len(b) : b[i] \in S
    BY LenProperties, ElementOfSeq
  <1>2. ASSUME NEW i \in 0..Len(b)
        PROVE  /\ part(i) \in Seq(S) /\ Len(part(i)) = i
               /\ \A k \in 1..i : part(i)[k] = b[k]
    BY <1>1
  <1> HIDE DEF part
  <1>3. ASSUME NEW i \in 0..Len(b)
        PROVE  /\ a \o part(i) \in Seq(S) /\ Len(a \o part(i)) = Len(a) + i
               /\ \A k \in 1..(Len(a) + i) :
                    (a \o part(i))[k] = IF k <= Len(a) THEN a[k] ELSE b[k - Len(a)]
    <2>1. part(i) \in Seq(S) /\ Len(part(i)) = i /\ \A k \in 1..i : part(i)[k] = b[k]
      BY <1>2
    <2>2. /\ a \o part(i) \in Seq(S) /\ Len(a \o part(i)) = Len(a) + i
          /\ \A k \in 1..(Len(a) + i) :
               (a \o part(i))[k] = IF k <= Len(a) THEN a[k] ELSE part(i)[k - Len(a)]
      <3>1. /\ a \o part(i) \in Seq(S) /\ Len(a \o part(i)) = Len(a) + Len(part(i))
            /\ \A k \in 1..(Len(a) + Len(part(i))) :
                 (a \o part(i))[k] = IF k <= Len(a) THEN a[k] ELSE part(i)[k - Len(a)]
        BY <2>1, ConcatProperties
      <3> QED BY <2>1, <3>1
    <2>3. ASSUME NEW k \in 1..(Len(a) + i), ~(k <= Len(a)) PROVE part(i)[k - Len(a)] = b[k - Len(a)]
      BY <1>1, <2>1, <2>3
    <2> QED BY <2>2, <2>3
  <1>4. a \o part(0) = a
    <2>1. 0 \in 0..Len(b)
      BY <1>1
    <2>2. /\ a \o part(0) \in Seq(S) /\ Len(a \o part(0)) = Len(a)
          /\ \A k \in 1..Len(a) : (a \o part(0))[k] = a[k]
      BY <1>1, <1>3, <2>1
    <2> QED BY <2>2, SeqEqual
  <1>5. ASSUME NEW i \in 1..Len(b)
        PROVE  a \o part(i) = Append(a \o part(i - 1), b[i])
    <2> DEFINE x == a \o part(i)
               y == a \o part(i - 1)
               z == Append(y, b[i])
    <2>1. i \in 0..Len(b) /\ i - 1 \in 0..Len(b) /\ Len(a) + (i - 1) = (Len(a) + i) - 1
      BY <1>1
    <2>2. /\ x \in Seq(S) /\ Len(x) = Len(a) + i
          /\ \A k \in 1..(Len(a) + i) : x[k] = IF k <= Len(a) THEN a[k] ELSE b[k - Len(a)]
      BY <1>3, <2>1
    <2>3. /\ y \in Seq(S) /\ Len(y) = (Len(a) + i) - 1
          /\ \A k \in 1..((Len(a) + i) - 1) : y[k] = IF k <= Len(a) THEN a[k] ELSE b[k - Len(a)]
      BY <1>3, <2>1
    <2> HIDE DEF x, y
    <2>4. /\ z \in Seq(S) /\ Len(z) = Len(y) + 1
          /\ \A k \in 1..Len(y) : z[k] = y[k]
          /\ z[Len(y) + 1] = b[i]
      BY <1>1, <2>3, AppendProperties
    <2> HIDE DEF z
    <2>5. ASSUME NEW k \in 1..Len(x) PROVE x[k] = z[k]
      <3>1. CASE k \in 1..((Len(a) + i) - 1)
        <4>1. k \in 1..(Len(a) + i) /\ k \in 1..Len(y)
          BY <1>1, <2>3, <3>1
        <4> QED BY <2>2, <2>3, <2>4, <3>1, <4>1
      <3>2. CASE k = Len(a) + i
        <4>1. ~(k <= Len(a)) /\ k - Len(a) = i /\ Len(y) + 1 = k /\ k \in 1..(Len(a) + i)
          BY <1>1, <2>3, <3>2
        <4>2. x[k] = b[i]
          BY <2>2, <4>1
        <4> QED BY <2>4, <4>1, <4>2
      <3>3. k \in 1..((Len(a) + i) - 1) \/ k = Len(a) + i
        <4>1. k \in 1..(Len(a) + i)
          BY <2>2
        <4> QED BY <1>1, <4>1
      <3> QED BY <3>1, <3>2, <3>3
    <2>6. Len(x) = Len(z)
      BY <1>1, <2>2, <2>3, <2>4
    <2>7. x = z
      BY <2>2, <2>4, <2>5, <2>6, SeqEqual
    <2> QED BY <2>7 DEF x, y, z
  <1> QED BY <1>4, <1>5 DEF part, To

LEMMA TokensOf ==
  /\ \A id \in ElementID : Start(id) \in Token /\ End(id) \in Token
  /\ Start(Root) \in Token /\ End(Root) \in Token
  BY DEF Start, End, Token

\* The end tags, innermost first, and the root's.
LEMMA ClosingTagsAre ==
  ASSUME tags \in Seq(ElementID)
  PROVE  /\ ClosingTags \in Seq(Token) /\ Len(ClosingTags) = Len(tags) + 1 /\ Len(tags) \in Nat
         /\ \A i \in 1..Len(tags) : ClosingTags[i] = End(tags[Len(tags) + 1 - i])
         /\ ClosingTags[Len(tags) + 1] = End(Root)
  <1> DEFINE n == Len(tags)
             a == [i \in DOMAIN tags |-> End(tags[Len(tags) + 1 - i])]
             b == <<End(Root)>>
  <1>1. n \in Nat /\ DOMAIN tags = 1..n /\ \A i \in 1..n : tags[i] \in ElementID
    BY LenProperties, ElementOfSeq
  <1>2. \A i \in 1..n : tags[n + 1 - i] \in ElementID
    BY <1>1
  <1>3. a \in [1..n -> Token] /\ \A i \in 1..n : a[i] = End(tags[n + 1 - i])
    BY <1>1, <1>2, TokensOf
  <1>4. b \in Seq(Token) /\ Len(b) = 1 /\ b[1] = End(Root)
    BY TokensOf
  <1> HIDE DEF a, b, n
  <1>5. a \in Seq(Token) /\ Len(a) = n
    <2>1. a \in Seq(Token)
      BY <1>1, <1>3, SeqDef
    <2> QED BY <1>1, <1>3, <2>1, LenProperties
  <1>6. /\ a \o b \in Seq(Token) /\ Len(a \o b) = n + 1
        /\ \A i \in 1..(n + 1) : (a \o b)[i] = IF i <= n THEN a[i] ELSE b[i - n]
    <2>1. /\ a \o b \in Seq(Token) /\ Len(a \o b) = Len(a) + Len(b)
          /\ \A i \in 1..(Len(a) + Len(b)) : (a \o b)[i] = IF i <= Len(a) THEN a[i] ELSE b[i - Len(a)]
      BY <1>4, <1>5, ConcatProperties
    <2> QED BY <1>4, <1>5, <2>1
  <1>7. \A i \in 1..n : (a \o b)[i] = End(tags[n + 1 - i])
    BY <1>1, <1>3, <1>6
  <1>8. (a \o b)[n + 1] = End(Root)
    <2>1. n + 1 \in 1..(n + 1) /\ ~(n + 1 <= n) /\ (n + 1) - n = 1
      BY <1>1
    <2> QED BY <1>4, <1>6, <2>1
  <1>9. ClosingTags = a \o b
    BY DEF ClosingTags, a, b
  <1> QED BY <1>1, <1>6, <1>7, <1>8, <1>9 DEF n

\* However far the end tags came, they show no element; all of them finish the document.
LEMMA ClosingTagsClose ==
  ASSUME tags \in Seq(ElementID), out \in Seq(Token),
         NEW n \in 0..Len(ClosingTags), NEW all, all = out \o SubSeq(ClosingTags, 1, n)
  PROVE  /\ all \in Seq(Token) /\ ShownIn(all) = ShownIn(out)
         /\ n = Len(ClosingTags) /\ Begun(out, Stack(tags)) => Finished(all)
  <1> DEFINE ct == ClosingTags
             t == Len(tags)
             to(i) == To(out, ct, i)
             left(i) == SubSeq(tags, 1, t - i)
  <1>1. /\ ct \in Seq(Token) /\ Len(ct) = t + 1 /\ t \in Nat
        /\ \A i \in 1..t : ct[i] = End(tags[t + 1 - i])
        /\ ct[t + 1] = End(Root)
    BY ClosingTagsAre
  <1>2. \A i \in 1..Len(ct) : ct[i] \in Token /\ ct[i].token = "end"
    <2> SUFFICES ASSUME NEW i \in 1..Len(ct) PROVE ct[i] \in Token /\ ct[i].token = "end"
      OBVIOUS
    <2>1. ct[i] \in Token
      BY <1>1, ElementOfSeq
    <2>2. \E id : ct[i] = End(id)
      <3>1. i \in 1..t \/ i = t + 1
        BY <1>1
      <3> QED BY <1>1, <3>1
    <2> QED BY <2>1, <2>2 DEF End
  <1> HIDE DEF ct
  <1>3. to(0) = out /\ \A i \in 1..Len(ct) : to(i) = Append(to(i - 1), ct[i])
    BY <1>1, TakenOn
  <1>4. ASSUME NEW i \in 1..t
        PROVE  left(i) = Pop(left(i - 1)) /\ left(i - 1) \in Seq(ElementID) /\ left(i - 1) # << >>
               /\ ct[i] = End(Top(left(i - 1)))
    <2> DEFINE m == t - (i - 1)
               r == SubSeq(tags, 1, m)
    <2>1. m \in 1..t /\ t + 1 - i = m /\ t - i = m - 1
      BY <1>1
    <2>2. /\ r \in Seq(ElementID) /\ Len(r) = m /\ \A k \in 1..m : r[k] = tags[k]
      BY <1>1, <2>1, SMTT(30)
    <2>3. r # << >> /\ Top(r) = tags[m]
      <3> HIDE DEF r, m
      <3>1. Len(r) # 0 /\ m \in 1..m
        BY <1>1, <2>1, <2>2
      <3> QED BY <2>2, <3>1, EmptySeq DEF Top
    <2>4. left(i) = Pop(r)
      <3> DEFINE x == SubSeq(tags, 1, m - 1)
                 y == SubSeq(r, 1, m - 1)
      <3>1. x \in Seq(ElementID) /\ Len(x) = m - 1 /\ \A k \in 1..(m - 1) : x[k] = tags[k]
        BY <1>1, <2>1
      <3>2. y \in Seq(ElementID) /\ Len(y) = m - 1 /\ \A k \in 1..(m - 1) : y[k] = r[k]
        <4>1. Pop(r) \in Seq(ElementID) /\ Len(Pop(r)) = Len(r) - 1
              /\ \A k \in 1..(Len(r) - 1) : Pop(r)[k] = r[k]
          BY <2>2, <2>3, PopFacts
        <4>2. Pop(r) = y
          BY <2>2 DEF Pop
        <4> QED BY <2>2, <4>1, <4>2
      <3>3. \A k \in 1..(m - 1) : r[k] = tags[k]
        BY <2>1, <2>2
      <3>4. left(i) = x /\ Pop(r) = y
        BY <2>1, <2>2 DEF Pop
      <3> HIDE DEF x, y
      <3>5. x = y
        BY <3>1, <3>2, <3>3, SeqEqual
      <3> QED BY <3>4, <3>5
    <2>5. left(i - 1) = r
      OBVIOUS
    <2>6. ct[i] = End(tags[m])
      BY <1>1, <2>1
    <2> HIDE DEF left, r, m
    <2> QED BY <2>2, <2>3, <2>4, <2>5, <2>6
  <1>5. left(0) = tags
    <2>1. SubSeq(tags, 1, t) \in Seq(ElementID) /\ Len(SubSeq(tags, 1, t)) = t
          /\ \A k \in 1..t : SubSeq(tags, 1, t)[k] = tags[k]
      BY <1>1
    <2>2. SubSeq(tags, 1, t) = tags
      BY <2>1, SeqEqual
    <2> QED BY <1>1, <2>2
  <1>6. left(t) = << >>
    <2>1. t - t = 0
      BY <1>1
    <2>2. SubSeq(tags, 1, 0) \in Seq(ElementID) /\ Len(SubSeq(tags, 1, 0)) = 0
      BY <1>1
    <2> QED BY <2>1, <2>2, EmptySeq
  <1> HIDE DEF to, left, t
  <1>7. \A i \in 0..Len(ct) : to(i) \in Seq(Token) /\ ShownIn(to(i)) = ShownIn(out)
    <2> DEFINE S == {i \in 0..Len(ct) : to(i) \in Seq(Token) /\ ShownIn(to(i)) = ShownIn(out)}
    <2>1. 0 \in S
      BY <1>1, <1>3
    <2>2. ASSUME NEW i \in 1..Len(ct), i - 1 \in S PROVE i \in S
      <3>1. to(i - 1) \in Seq(Token) /\ ShownIn(to(i - 1)) = ShownIn(out) /\ i \in 0..Len(ct)
        BY <1>1, <2>2
      <3>2. to(i) = Append(to(i - 1), ct[i]) /\ ct[i] \in Token /\ ct[i].token = "end"
        BY <1>2, <1>3
      <3>3. to(i) \in Seq(Token) /\ ShownIn(to(i)) = ShownIn(to(i - 1))
        BY <3>1, <3>2, ShownMore, AppendProperties
      <3> QED BY <3>1, <3>3
    <2>3. 0..Len(ct) \subseteq S
      <3>1. Len(ct) \in Nat
        BY <1>1
      <3> HIDE DEF S
      <3> QED BY <3>1, <2>1, <2>2, BoundedInduction
    <2> QED BY <2>3
  <1>8. ASSUME Begun(out, Stack(tags)) PROVE Finished(to(t + 1))
    <2> DEFINE S == {i \in 0..t : Begun(to(i), Stack(left(i)))}
    <2>1. 0 \in S
      BY <1>1, <1>3, <1>5, <1>8
    <2>2. ASSUME NEW i \in 1..t, i - 1 \in S PROVE i \in S
      <3>1. Begun(to(i - 1), Stack(left(i - 1))) /\ i \in 0..t /\ i \in 1..Len(ct)
        BY <1>1, <2>2
      <3>2. to(i) = Append(to(i - 1), ct[i]) /\ ct[i] \in Token
        BY <1>2, <1>3, <3>1
      <3>3. left(i - 1) \in Seq(ElementID) /\ left(i - 1) # << >> /\ left(i) = Pop(left(i - 1))
            /\ ct[i] = End(Top(left(i - 1)))
        BY <1>4
      <3>4. After(Stack(left(i - 1)), ct[i]) = Stack(left(i)) /\ left(i) \in Seq(ElementID)
        BY <3>3, StackShrinks, PopFacts
      <3>5. Stack(left(i)) # << >>
        BY <3>4, StackOf
      <3>6. Begun(to(i), Stack(left(i)))
        BY <3>1, <3>2, <3>4, <3>5, BegunGoesOn
      <3> QED BY <3>1, <3>6
    <2>3. 0..t \subseteq S
      <3> HIDE DEF S
      <3> QED BY <1>1, <2>1, <2>2, BoundedInduction
    <2>4. Begun(to(t), Stack(<< >>))
      BY <1>1, <1>6, <2>3
    <2>5. t + 1 \in 1..Len(ct) /\ (t + 1) - 1 = t
      BY <1>1
    <2>6. to(t + 1) = Append(to(t), End(Root)) /\ End(Root) \in Token
      BY <1>1, <1>2, <1>3, <2>5
    <2> QED BY <2>4, <2>6, StackEnds, BegunGoesOn
  <1>9. all = to(n)
    BY DEF to, ct, To
  <1>10. n \in 0..Len(ct)
    BY DEF ct
  <1>11. all \in Seq(Token) /\ ShownIn(all) = ShownIn(out)
    <2>1. to(n) \in Seq(Token) /\ ShownIn(to(n)) = ShownIn(out)
      BY <1>7, <1>10
    <2> QED BY <1>9, <2>1
  <1>12. n = Len(ct) /\ Begun(out, Stack(tags)) => Finished(all)
    BY <1>1, <1>8, <1>9
  <1> QED BY <1>11, <1>12 DEF ct

\* token for one, and for two: what the encoder took.
LEMMA OneEmitted ==
  ASSUME encFailed \in BOOLEAN, out \in Seq(Token), NEW t \in Token, Emit(<<t>>)
  PROVE  /\ out' \in Seq(Token) /\ encFailed' \in BOOLEAN
         /\ \/ out' = out /\ encFailed'
            \/ out' = Append(out, t) /\ ~encFailed /\ ~encFailed'
  <1> DEFINE b == <<t>>
  <1>1. b \in Seq(Token) /\ Len(b) = 1 /\ b[1] = t
    OBVIOUS
  <1>2. PICK n \in 0..Len(b) : /\ encFailed => n = 0
                               /\ out' = To(out, b, n)
                               /\ encFailed' \in BOOLEAN
                               /\ encFailed' <=> encFailed \/ n < Len(b)
    BY DEF Emit, To
  <1> HIDE DEF b
  <1>3. To(out, b, 0) = out /\ \A i \in 1..Len(b) : To(out, b, i) = Append(To(out, b, i - 1), b[i])
    <2>1. b \in Seq(Token)
      BY <1>1
    <2> QED BY <2>1, TakenOn
  <1>4. To(out, b, 1) = Append(out, t)
    BY <1>1, <1>3
  <1>5. Append(out, t) \in Seq(Token)
    BY AppendProperties
  <1>6. n = 0 \/ n = 1
    BY <1>1
  <1>7. CASE n = 0
    BY <1>1, <1>2, <1>3, <1>7
  <1>8. CASE n = 1
    <2>1. ~encFailed
      BY <1>2, <1>8
    <2>2. ~encFailed'
      BY <1>1, <1>2, <1>8, <2>1
    <2>3. out' = Append(out, t) /\ encFailed' \in BOOLEAN
      BY <1>2, <1>4, <1>8
    <2> QED BY <1>5, <2>1, <2>2, <2>3
  <1> QED BY <1>6, <1>7, <1>8

LEMMA TwoEmitted ==
  ASSUME encFailed \in BOOLEAN, out \in Seq(Token), NEW t \in Token, NEW u \in Token,
         Emit(<<t, u>>)
  PROVE  /\ out' \in Seq(Token) /\ encFailed' \in BOOLEAN
         /\ \/ out' = out /\ encFailed'
            \/ out' = Append(out, t) /\ encFailed'
            \/ out' = Append(Append(out, t), u) /\ ~encFailed /\ ~encFailed'
  <1> DEFINE b == <<t, u>>
  <1>1. b \in Seq(Token) /\ Len(b) = 2 /\ b[1] = t /\ b[2] = u
    OBVIOUS
  <1>2. PICK n \in 0..Len(b) : /\ encFailed => n = 0
                               /\ out' = To(out, b, n)
                               /\ encFailed' \in BOOLEAN
                               /\ encFailed' <=> encFailed \/ n < Len(b)
    BY DEF Emit, To
  <1> HIDE DEF b
  <1>3. To(out, b, 0) = out /\ \A i \in 1..Len(b) : To(out, b, i) = Append(To(out, b, i - 1), b[i])
    <2>1. b \in Seq(Token)
      BY <1>1
    <2> QED BY <2>1, TakenOn
  <1>4. To(out, b, 1) = Append(out, t)
    BY <1>1, <1>3
  <1>5. To(out, b, 2) = Append(Append(out, t), u)
    BY <1>1, <1>3, <1>4
  <1>6. Append(out, t) \in Seq(Token) /\ Append(Append(out, t), u) \in Seq(Token)
    BY AppendProperties
  <1>7. n = 0 \/ n = 1 \/ n = 2
    BY <1>1
  <1>8. CASE n = 0
    BY <1>1, <1>2, <1>3, <1>8
  <1>9. CASE n = 1
    BY <1>1, <1>2, <1>4, <1>6, <1>9
  <1>10. CASE n = 2
    <2>1. ~encFailed
      BY <1>2, <1>10
    <2>2. ~encFailed'
      BY <1>1, <1>2, <1>10, <2>1
    <2>3. out' = Append(Append(out, t), u) /\ encFailed' \in BOOLEAN
      BY <1>2, <1>5, <1>10
    <2> QED BY <1>6, <2>1, <2>2, <2>3
  <1> QED BY <1>7, <1>8, <1>9, <1>10

\* What was tried against what was told: all of it, but at most the last.
Nearly == Elements = Tried \/ \E id \in ElementID : Elements = Append(Tried, id)

\* ... and which, at each point of the loop.
Showing ==
  /\ Nearly
  /\ phase \in {"opening", "walking"} => walkErr = "none"
  /\ phase = "walking" =>
       /\ handled = Len(events) => Elements = Tried
       /\ handled < Len(events) =>
            /\ Told.ev \in {"end", "eof"} => Elements = Tried
            /\ Told.ev \in {"master", "leaf"} =>
                 Told.id \in ElementID /\ Elements = Append(Tried, Told.id)
  /\ phase = "closing" /\ walkErr = "none" => Elements = Tried
  /\ result = "ok" => Elements = Tried

\* The inductive invariant of what is put out.
OutInv ==
  /\ phase \in {"opening", "walking", "closing", "done"}
  /\ tags \in Seq(ElementID) /\ encFailed \in BOOLEAN /\ out \in Seq(Token)
  /\ handled <= Len(events)
  /\ result # "none" <=> phase = "done"
  /\ encFailed => command = "xml" /\ phase \in {"closing", "done"}
  /\ encFailed /\ phase = "closing" => walkErr # "none"
  /\ command = "xml" /\ ~encFailed /\ phase \in {"walking", "closing"} => Begun(out, Stack(tags))
  /\ WellFormed
  /\ Showing

LEMMA TriedIsShown == Tried = ShownIn(out) /\ Elements = ToldIn(events)
  BY DEF Tried, ShownIn, Elements, ToldIn

LEMMA TriedLater == Tried' = ShownIn(out') /\ Elements' = ToldIn(events')
  BY DEF Tried, ShownIn, Elements, ToldIn

\* A token more shows its element, if it begins one.
LEMMA TokenShown ==
  ASSUME NEW s \in Seq(Token)
  PROVE  /\ \A id \in ElementID : ShownIn(Append(s, Start(id))) = Append(ShownIn(s), id)
         /\ \A id \in ElementID \cup {Root} : ShownIn(Append(s, End(id))) = ShownIn(s)
         /\ ShownIn(Append(s, Start(Root))) = ShownIn(s)
         /\ \A n : n.id \in ElementID /\ n.depth \in Nat =>
              \A t \in {Line(n), Lost(n)} :
                t \in Token /\ ShownIn(Append(s, t)) = Append(ShownIn(s), n.id)
  <1>1. ASSUME NEW id \in ElementID
        PROVE  ShownIn(Append(s, Start(id))) = Append(ShownIn(s), id)
    <2>1. Start(id) \in Token /\ Start(id).token # "end" /\ Start(id).id = id /\ id # Root
      BY TokensOf, CommandAssumption DEF Start
    <2> QED BY <2>1, ShownMore
  <1>2. ASSUME NEW id \in ElementID \cup {Root}
        PROVE  ShownIn(Append(s, End(id))) = ShownIn(s)
    <2>1. End(id) \in Token /\ End(id).token = "end"
      BY DEF End, Token
    <2> QED BY <2>1, ShownMore
  <1>3. ShownIn(Append(s, Start(Root))) = ShownIn(s)
    <2>1. Start(Root) \in Token /\ Start(Root).id = Root
      BY TokensOf DEF Start
    <2> QED BY <2>1, ShownMore
  <1>4. ASSUME NEW n, n.id \in ElementID, n.depth \in Nat, NEW t \in {Line(n), Lost(n)}
        PROVE  t \in Token /\ ShownIn(Append(s, t)) = Append(ShownIn(s), n.id)
    <2>1. t \in Token /\ t.token # "end" /\ t.id = n.id /\ n.id # Root
      BY <1>4, CommandAssumption DEF Line, Lost, Token
    <2> QED BY <2>1, ShownMore
  <1> QED BY <1>1, <1>2, <1>3, <1>4

\* The root's tag begins the document.
LEMMA RootBegins ==
  ASSUME NEW t, t = Start(Root)
  PROVE  Begun(Append(<< >>, t), Stack(<< >>))
  <1> DEFINE e == << >>
             s == Append(e, t)
  <1>1. e \in Seq(Token) /\ t \in Token /\ Len(e) = 0 /\ Within(e) = << >>
    BY EmptySeq, TokensOf, NothingIsShown
  <1> HIDE DEF e
  <1>2. s \in Seq(Token) /\ Len(s) = 1 /\ s[1] = t
    BY <1>1, AppendProperties
  <1>3. Within(s) = Stack(<< >>)
    BY <1>1, WithinOfAppended, StackEnds
  <1>4. SubSeq(s, 1, 1) = s
    BY <1>1, FirstOfAppended
  <1>5. Stack(<< >>) # << >>
    <2>1. << >> \in Seq(ElementID)
      BY EmptySeq
    <2> QED BY <2>1, StackOf
  <1> HIDE DEF s
  <1>6. \A n \in 1..Len(s) : Within(SubSeq(s, 1, n)) # << >>
    <2>1. \A n \in 1..Len(s) : n = 1
      BY <1>2
    <2> QED BY <2>1, <1>3, <1>4, <1>5
  <1>7. Begun(s, Stack(<< >>))
    BY <1>2, <1>3, <1>6 DEF Begun
  <1> QED BY <1>7 DEF s, e

LEMMA OutInit == CliInit => OutInv
  <1> SUFFICES ASSUME CliInit PROVE OutInv
    OBVIOUS
  <1>1. /\ command \in {"dump", "xml"} /\ phase = "opening" /\ tags = << >> /\ out = << >>
        /\ encFailed = FALSE /\ handled = 0 /\ walkErr = "none" /\ result = "none"
        /\ events = << >>
    BY DEF CliInit, StreamInit, Init
  <1>2. << >> \in Seq(ElementID) /\ << >> \in Seq(Token) /\ Len(<< >>) = 0
    BY EmptySeq
  <1>3. Tried = << >> /\ Elements = << >>
    BY <1>1, TriedIsShown, NothingIsShown
  <1>4. Showing
    BY <1>1, <1>3 DEF Showing, Nearly
  <1>5. WellFormed
    BY <1>1 DEF WellFormed
  <1>6. tags \in Seq(ElementID) /\ out \in Seq(Token) /\ handled <= Len(events)
    BY <1>1, <1>2
  <1> QED BY <1>1, <1>4, <1>5, <1>6 DEF OutInv

-----------------------------------------------------------------------------
(* What each step puts out.                                                *)

LEMMA OpenPutsOut == ASSUME WalkInv, OutInv, Open PROVE OutInv'
  <1>1. /\ phase = "opening" /\ UNCHANGED <<events, command, tags, handled, walkErr>>
        /\ tags = << >> /\ out = << >> /\ events = << >> /\ handled = 0 /\ ~encFailed
        /\ walkErr' = walkErr /\ result = "none" /\ command \in {"dump", "xml"}
    BY DEF Open, streamVars, vars, WalkInv, OutInv
  <1>2. /\ tags' \in Seq(ElementID) /\ handled' <= Len(events') /\ out \in Seq(Token)
        /\ encFailed \in BOOLEAN /\ Len(events') = 0 /\ handled' = 0
    <2>1. Len(<< >>) = 0
      OBVIOUS
    <2> QED BY <1>1, <2>1 DEF OutInv
  <1>3. Elements' = << >>
    BY <1>1, TriedLater, NothingIsShown
  <1>4. phase' = "walking" \/ (phase' = "done" /\ result' = "encoder")
    BY DEF Open
  <1>4a. phase' = "walking" => result' = "none" /\ ~encFailed'
    BY <1>1 DEF Open
  <1>4b. phase' = "done" => result' = "encoder" /\ encFailed'
    BY <1>1, <1>4 DEF Open
  <1>5. /\ out' \in Seq(Token) /\ encFailed' \in BOOLEAN /\ Tried' = << >>
        /\ command = "dump" => encFailed' = encFailed
        /\ command = "xml" /\ ~encFailed' => Begun(out', Stack(tags'))
    <2>1. CASE command = "dump"
      BY <1>1, <1>2, <2>1, TriedLater, NothingIsShown DEF Open
    <2>2. CASE command # "dump"
      <3>1. Emit(<<Start(Root)>>)
        BY <2>2 DEF Open
      <3>2. /\ out' \in Seq(Token) /\ encFailed' \in BOOLEAN
            /\ \/ out' = out /\ encFailed'
               \/ out' = Append(out, Start(Root)) /\ ~encFailed /\ ~encFailed'
        BY <1>2, <3>1, OneEmitted, TokensOf
      <3>3. CASE out' = out /\ encFailed'
        BY <1>1, <2>2, <3>2, <3>3, TriedLater, NothingIsShown
      <3>4. CASE out' = Append(out, Start(Root)) /\ ~encFailed'
        <4>1. Begun(out', Stack(tags'))
          BY <1>1, <3>4, RootBegins
        <4>2. ShownIn(out') = ShownIn(out)
          BY <1>2, <3>4, TokenShown
        <4>3. Tried' = << >>
          BY <1>1, <4>2, TriedLater, NothingIsShown
        <4> QED BY <2>2, <3>2, <3>4, <4>1, <4>3
      <3> QED BY <3>2, <3>3, <3>4
    <2> QED BY <2>1, <2>2
  <1>6. Showing'
    <2>1. walkErr' = "none" /\ result' # "ok"
      BY <1>1, <1>4, <1>4a, <1>4b DEF Showing, OutInv
    <2>2. Elements' = Tried' /\ handled' = Len(events)'
      BY <1>2, <1>3, <1>5
    <2>3. ~(handled' < Len(events)')
      BY <1>2, <2>2
    <2> QED BY <2>1, <2>2, <2>3 DEF Showing, Nearly
  <1>7. WellFormed'
    BY <1>4, <1>4b DEF WellFormed
  <1> QED BY <1>1, <1>2, <1>4, <1>4a, <1>4b, <1>5, <1>6, <1>7 DEF OutInv

\* What the loop's body leaves: a failed encoder, or all shown that was told.
LEMMA BodyPutsOut ==
  ASSUME OutInv, phase = "walking", Len(events) \in Nat, UNCHANGED <<events, command, result>>,
         handled' = Len(events), tags' \in Seq(ElementID), out' \in Seq(Token),
         encFailed' \in BOOLEAN, Nearly',
         encFailed' => command = "xml" /\ phase' = "closing" /\ walkErr' # "none",
         ~encFailed' => /\ phase' = "walking" /\ walkErr' = walkErr /\ Elements' = Tried'
                        /\ command = "xml" => Begun(out', Stack(tags'))
  PROVE  OutInv'
  <1>1. result' = "none" /\ walkErr = "none"
    BY DEF OutInv, Showing
  <1>2. phase' \in {"walking", "closing"}
    OBVIOUS
  <1>3. Len(events') = Len(events) /\ handled' = Len(events') /\ ~(handled' < Len(events'))
        /\ handled' <= Len(events')
    OBVIOUS
  <1>4. Showing'
    BY <1>1, <1>2, <1>3 DEF Showing
  <1>5. WellFormed'
    BY <1>2 DEF WellFormed
  <1> QED BY <1>1, <1>2, <1>3, <1>4, <1>5 DEF OutInv

\* The body before a node.
LEMMA InTheBody ==
  ASSUME WalkInv, OutInv, phase = "walking", handled < Len(events), Len(events) \in Nat
  PROVE  /\ ~encFailed /\ encFailed \in BOOLEAN /\ tags \in Seq(ElementID) /\ out \in Seq(Token)
         /\ command \in {"dump", "xml"} /\ walkErr = "none" /\ Told.depth \in Nat
         /\ command = "xml" => Begun(out, Stack(tags))
         /\ Told.ev \in {"end", "eof"} => Elements = Tried
         /\ Told.ev \in {"master", "leaf"} =>
              Told.id \in ElementID /\ Elements = Append(Tried, Told.id)
  <1>1. Told.depth \in Nat
    BY ToldType DEF WalkInv, Event
  <1> QED BY <1>1 DEF WalkInv, OutInv, Showing

\* dump shows an element by a line, or loses it.
LEMMA LinePutOut ==
  ASSUME OutInv, out \in Seq(Token), Told.id \in ElementID, Told.depth \in Nat,
         Elements = Append(Tried, Told.id), events' = events,
         NEW t \in {Line(Told), Lost(Told)}, out' = Append(out, t)
  PROVE  out' \in Seq(Token) /\ Elements' = Tried' /\ Nearly'
  <1>1. t \in Token /\ ShownIn(out') = Append(ShownIn(out), Told.id)
    BY TokenShown
  <1>2. out' \in Seq(Token)
    BY <1>1, AppendProperties
  <1>3. Elements' = Tried'
    BY <1>1, TriedIsShown, TriedLater
  <1> QED BY <1>2, <1>3 DEF Nearly

LEMMA MasterPutsOut == ASSUME WalkInv, OutInv, ShowMaster PROVE OutInv'
  <1>1. /\ Told.ev = "master" /\ phase = "walking" /\ handled < Len(events) /\ Len(events) \in Nat
    BY PulledFacts DEF ShowMaster
  <1>2. /\ ~encFailed /\ encFailed \in BOOLEAN /\ tags \in Seq(ElementID) /\ out \in Seq(Token)
        /\ command \in {"dump", "xml"} /\ walkErr = "none" /\ Told.depth \in Nat
        /\ command = "xml" => Begun(out, Stack(tags))
        /\ Told.id \in ElementID /\ Elements = Append(Tried, Told.id)
    BY <1>1, InTheBody
  <1>3. handled' = Len(events) /\ UNCHANGED <<events, command, result>>
    BY DEF ShowMaster, Handled, streamVars, vars
  <1>4. CASE command = "dump"
    <2>1. PICK t \in {Line(Told), Lost(Told)} :
            out' = Append(out, t) /\ UNCHANGED <<tags, encFailed, walkErr, phase>>
      BY <1>4 DEF ShowMaster, ShowLine
    <2>2. out' \in Seq(Token) /\ Elements' = Tried' /\ Nearly'
      BY <1>2, <1>3, <2>1, LinePutOut
    <2> QED BY <1>1, <1>2, <1>3, <1>4, <2>1, <2>2, BodyPutsOut
  <1>5. CASE command = "xml"
    <2> DEFINE t == Start(Told.id)
    <2>1. tags' = Append(tags, Told.id) /\ Emit(<<t>>) /\ BodyReturns
      BY <1>5 DEF ShowMaster
    <2>2. tags' \in Seq(ElementID) /\ t \in Token
      BY <1>2, <2>1, AppendProperties, TokensOf
    <2>3. After(Stack(tags), t) = Stack(tags') /\ Stack(tags') # << >>
      BY <1>2, <2>1, <2>2, StackGrows, StackOf
    <2>4. ShownIn(Append(out, t)) = Append(ShownIn(out), Told.id)
      BY <1>2, TokenShown
    <2> HIDE DEF t
    <2>5. /\ out' \in Seq(Token) /\ encFailed' \in BOOLEAN
          /\ \/ out' = out /\ encFailed'
             \/ out' = Append(out, t) /\ ~encFailed /\ ~encFailed'
      BY <1>2, <2>1, <2>2, OneEmitted
    <2>6. CASE out' = out /\ encFailed'
      <3>1. Tried' = Tried /\ Elements' = Elements
        BY <1>3, <2>6, TriedIsShown, TriedLater
      <3>2. Nearly'
        BY <1>2, <3>1 DEF Nearly
      <3>3. phase' = "closing" /\ walkErr' # "none"
        BY <2>1, <2>6 DEF BodyReturns
      <3> QED BY <1>1, <1>3, <1>5, <2>2, <2>5, <2>6, <3>2, <3>3, BodyPutsOut
    <2>7. CASE out' = Append(out, t) /\ ~encFailed'
      <3>1. Elements' = Tried'
        BY <1>2, <1>3, <2>4, <2>7, TriedIsShown, TriedLater
      <3>2. Nearly'
        BY <3>1 DEF Nearly
      <3>3. phase' = "walking" /\ walkErr' = walkErr
        BY <1>1, <2>1, <2>7 DEF BodyReturns
      <3>4. Begun(out', Stack(tags'))
        BY <1>2, <1>5, <2>2, <2>3, <2>7, BegunGoesOn
      <3> QED BY <1>1, <1>3, <2>2, <2>5, <2>7, <3>1, <3>2, <3>3, <3>4, BodyPutsOut
    <2> QED BY <2>5, <2>6, <2>7
  <1> QED BY <1>2, <1>4, <1>5

LEMMA EndPutsOut == ASSUME WalkInv, OutInv, ShowEnd PROVE OutInv'
  <1>1. /\ Told.ev = "end" /\ phase = "walking" /\ handled < Len(events) /\ Len(events) \in Nat
    BY PulledFacts DEF ShowEnd
  <1>2. /\ ~encFailed /\ encFailed \in BOOLEAN /\ tags \in Seq(ElementID) /\ out \in Seq(Token)
        /\ command \in {"dump", "xml"} /\ walkErr = "none"
        /\ command = "xml" => Begun(out, Stack(tags))
        /\ Elements = Tried
    BY <1>1, InTheBody
  <1>3. handled' = Len(events) /\ UNCHANGED <<events, command, result>>
    BY DEF ShowEnd, Handled, streamVars, vars
  <1>4. CASE command = "dump" \/ tags = << >>
    <2>1. UNCHANGED <<out, tags, encFailed, walkErr, phase>>
      BY <1>4 DEF ShowEnd
    <2>2. Tried' = Tried /\ Elements' = Elements
      BY <1>3, <2>1, TriedIsShown, TriedLater
    <2>3. Elements' = Tried' /\ Nearly'
      BY <1>2, <2>2 DEF Nearly
    <2> QED BY <1>1, <1>2, <1>3, <2>1, <2>3, BodyPutsOut
  <1>5. CASE command = "xml" /\ tags # << >>
    <2> DEFINE t == End(Top(tags))
    <2>1. tags' = Pop(tags) /\ Emit(<<t>>) /\ BodyReturns
      BY <1>5 DEF ShowEnd
    <2>2. Top(tags) \in ElementID /\ tags' \in Seq(ElementID)
      BY <1>2, <1>5, <2>1, PopFacts
    <2>3. After(Stack(tags), t) = Stack(tags') /\ Stack(tags') # << >>
      BY <1>2, <1>5, <2>1, <2>2, StackShrinks, StackOf
    <2>4. ShownIn(Append(out, t)) = ShownIn(out) /\ t \in Token
      BY <1>2, <2>2, TokenShown, TokensOf
    <2> HIDE DEF t
    <2>5. /\ out' \in Seq(Token) /\ encFailed' \in BOOLEAN
          /\ \/ out' = out /\ encFailed'
             \/ out' = Append(out, t) /\ ~encFailed /\ ~encFailed'
      BY <1>2, <2>1, <2>4, OneEmitted
    <2>6. Elements' = Tried' /\ Nearly'
      BY <1>2, <1>3, <2>4, <2>5, TriedIsShown, TriedLater DEF Nearly
    <2>7. encFailed' => phase' = "closing" /\ walkErr' # "none"
      BY <2>1 DEF BodyReturns
    <2>8. ~encFailed' => phase' = "walking" /\ walkErr' = walkErr
      BY <1>1, <2>1 DEF BodyReturns
    <2>9. ~encFailed' => Begun(out', Stack(tags'))
      BY <1>2, <1>5, <2>3, <2>4, <2>5, BegunGoesOn
    <2> QED BY <1>1, <1>3, <1>5, <2>2, <2>5, <2>6, <2>7, <2>8, <2>9, BodyPutsOut
  <1> QED BY <1>2, <1>4, <1>5

\* A leaf opens and closes.
LEMMA LeafPutsOut ==
  ASSUME WalkInv, OutInv, ShownLeaf(Told), phase = "walking", Told.ev = "leaf",
         handled < Len(events), Len(events) \in Nat, handled' = Len(events),
         UNCHANGED <<events, command, result>>
  PROVE  OutInv'
  <1>2. /\ ~encFailed /\ encFailed \in BOOLEAN /\ tags \in Seq(ElementID) /\ out \in Seq(Token)
        /\ command \in {"dump", "xml"} /\ walkErr = "none" /\ Told.depth \in Nat
        /\ command = "xml" => Begun(out, Stack(tags))
        /\ Told.id \in ElementID /\ Elements = Append(Tried, Told.id)
    BY InTheBody
  <1>3. tags' = tags
    BY DEF ShownLeaf
  <1>4. CASE command = "dump"
    <2>1. PICK t \in {Line(Told), Lost(Told)} :
            out' = Append(out, t) /\ UNCHANGED <<encFailed, walkErr, phase>>
      BY <1>4 DEF ShownLeaf, ShowLine
    <2>2. out' \in Seq(Token) /\ Elements' = Tried' /\ Nearly'
      BY <1>2, <2>1, LinePutOut
    <2> QED BY <1>2, <1>3, <1>4, <2>1, <2>2, BodyPutsOut
  <1>5. CASE command = "xml"
    <2> DEFINE t == Start(Told.id)
               u == End(Told.id)
               more == Append(out, t)
               all == Append(more, u)
    <2>1. Emit(<<t, u>>) /\ BodyReturns
      BY <1>5 DEF ShownLeaf
    <2>2. t \in Token /\ u \in Token /\ more \in Seq(Token)
      BY <1>2, AppendProperties, TokensOf
    <2>3. ShownIn(more) = Append(ShownIn(out), Told.id) /\ ShownIn(all) = ShownIn(more)
      BY <1>2, <2>2, TokenShown
    <2>4. Begun(all, Stack(tags))
      <3>1. After(Stack(tags), t) = Stack(Append(tags, Told.id))
        BY <1>2, StackGrows
      <3> DEFINE r == Append(tags, Told.id)
      <3>2. r \in Seq(ElementID) /\ Pop(r) = tags /\ r # << >>
        BY <1>2, AppendProperties, PopAppended, SMTT(30)
      <3>3. Top(r) = Told.id
        BY <1>2, AppendProperties DEF Top
      <3> HIDE DEF r
      <3>4. Stack(r) # << >> /\ Stack(tags) # << >>
        BY <1>2, <3>2, StackOf
      <3>5. After(Stack(r), u) = Stack(tags)
        BY <3>2, <3>3, StackShrinks
      <3>6. Begun(more, Stack(r))
        BY <1>2, <1>5, <2>2, <3>1, <3>4, BegunGoesOn DEF r
      <3> HIDE DEF more, u, t
      <3> QED BY <2>2, <3>4, <3>5, <3>6, BegunGoesOn
    <2> HIDE DEF t, u, more, all
    <2>5. /\ out' \in Seq(Token) /\ encFailed' \in BOOLEAN
          /\ \/ out' = out /\ encFailed'
             \/ out' = more /\ encFailed'
             \/ out' = all /\ ~encFailed /\ ~encFailed'
      BY <1>2, <2>1, <2>2, TwoEmitted DEF more, all
    <2>6. Nearly' /\ (~encFailed' => Elements' = Tried')
      <3>1. Tried = ShownIn(out) /\ Tried' = ShownIn(out') /\ Elements' = Elements
        BY TriedIsShown, TriedLater
      <3>2. Tried' = Tried \/ Tried' = Append(Tried, Told.id)
        BY <2>3, <2>5, <3>1
      <3>3. ~encFailed' => Tried' = Append(Tried, Told.id)
        BY <2>3, <2>5, <3>1
      <3> QED BY <1>2, <3>1, <3>2, <3>3 DEF Nearly
    <2>7. encFailed' => phase' = "closing" /\ walkErr' # "none"
      BY <2>1 DEF BodyReturns
    <2>8. ~encFailed' => phase' = "walking" /\ walkErr' = walkErr
      BY <2>1 DEF BodyReturns
    <2>9. ~encFailed' => Begun(out', Stack(tags'))
      BY <1>3, <2>4, <2>5
    <2> QED BY <1>2, <1>3, <1>5, <2>5, <2>6, <2>7, <2>8, <2>9, BodyPutsOut
  <1> QED BY <1>2, <1>4, <1>5

\* Nothing is told and nothing shown.
LEMMA NothingPutOut ==
  ASSUME OutInv, UNCHANGED commandVars, UNCHANGED events
  PROVE  OutInv'
  <1>1. Tried' = Tried /\ Elements' = Elements /\ Told' = Told
    BY TriedIsShown, TriedLater DEF commandVars, Told
  <1>2. Showing'
    BY <1>1 DEF Showing, Nearly, OutInv, commandVars
  <1>3. WellFormed'
    BY DEF WellFormed, OutInv, commandVars
  <1> QED BY <1>2, <1>3 DEF OutInv, commandVars

\* An event is told, and not yet shown.
LEMMA TellingPutsOut ==
  ASSUME WalkInv, OutInv, StreamInv', phase = "walking", UNCHANGED commandVars,
         NEW e, events' = Append(events, e),
         e.ev # "fail" => handled = Len(events),
         e.ev \in {"master", "leaf"} => e.id \in ElementID
  PROVE  OutInv'
  <1>1. events \in Seq(Event) /\ events' \in Seq(Event)
    BY DEF WalkInv, StreamInv, CursorInv, TypeOK
  <1>2. Len(events') = Len(events) + 1 /\ Len(events) \in Nat /\ Told' = e
    BY Telling DEF WalkInv
  <1>3. e \in Event
    <2>1. Len(events') \in 1..Len(events') /\ Told' = events'[Len(events')]
      BY <1>2 DEF Told, Top
    <2> QED BY <1>1, <1>2, <2>1, ElementOfSeq
  <1>4. ToldIn(events') = IF e.ev \in {"master", "leaf"} THEN Append(ToldIn(events), e.id)
                          ELSE ToldIn(events)
    BY <1>1, <1>3, ToldMore
  <1>5. Tried' = Tried /\ Elements' = IF e.ev \in {"master", "leaf"} THEN Append(Elements, e.id)
                                    ELSE Elements
    BY <1>4, TriedIsShown, TriedLater DEF commandVars
  <1>6. /\ handled' = handled /\ handled \in Nat /\ handled <= Len(events)
        /\ phase' = "walking" /\ walkErr' = "none" /\ result' = "none"
        /\ handled = Len(events) => Elements = Tried
        /\ Nearly
    BY DEF WalkInv, OutInv, Showing, commandVars
  <1>7. handled' < Len(events') /\ handled' # Len(events')
    BY <1>2, <1>6
  <1>8. Nearly'
    <2>1. CASE e.ev \in {"master", "leaf"}
      <3>1. Elements' = Append(Tried', e.id) /\ e.id \in ElementID
        BY <1>5, <1>6, <2>1
      <3> QED BY <3>1 DEF Nearly
    <2>2. CASE e.ev \notin {"master", "leaf"}
      BY <1>5, <1>6, <2>2 DEF Nearly
    <2> QED BY <2>1, <2>2
  <1>9. Showing'
    BY <1>2, <1>5, <1>6, <1>7, <1>8 DEF Showing
  <1>10. WellFormed'
    BY <1>6 DEF WellFormed
  <1>11. handled' <= Len(events')
    BY <1>2, <1>6
  <1> QED BY <1>9, <1>10, <1>11 DEF OutInv, commandVars

\* What Finalize tells is a failure.
LEMMA FinalizeTellsFailures ==
  ASSUME Finalize, err' # "none"
  PROVE  \E e : events' = Append(events, e) /\ e.ev = "fail"
  <1> DEFINE blocked == ResolveResult = "NeedMoreData"
             q == IF blocked THEN p ELSE ResolvedParser
  <1>1. err = "none"
    BY DEF Finalize
  <1>2. Fail(ResolveResult) \/ Fail(PeekResult(doc, q)) \/ Fail(FinalizeEOFResult(doc, q))
    <2>1. CASE ResolveResult \notin {"ok", "NeedMoreData"}
      BY <2>1 DEF Finalize
    <2>2. CASE ResolveResult \in {"ok", "NeedMoreData"}
      BY <1>1, <2>2 DEF Finalize
    <2> QED BY <2>1, <2>2
  <1> HIDE DEF q
  <1>3. \A why : Outcome("fail", why).ev = "fail"
    BY DEF Outcome
  <1> QED BY <1>2, <1>3 DEF Fail

LEMMA ReadingPutsOut == ASSUME WalkInv, OutInv, Reading PROVE OutInv'
  <1>1. StreamInv'
    BY StreamNextInv, CliStepIsStreamStep DEF WalkInv, CliNext
  <1>2. phase = "walking" /\ UNCHANGED commandVars
    BY DEF Reading
  <1>3. CASE PullAnswered
    <2>1. call = "next" /\ Answer
      BY <1>3 DEF PullAnswered
    <2>2. TellsNothing \/ TellsLast \/ TellsEnd(Masters) \/ TellsNode(Masters)
      BY <2>1, WhatNextTells DEF WalkInv
    <2>3. handled = Len(events)
      BY <1>2, <2>1 DEF WalkInv, AllHandled, OneInHand
    <2>4. CASE TellsNothing
      BY <1>2, <2>4, NothingPutOut DEF TellsNothing
    <2>5. CASE TellsLast
      <3>1. PICK e : events' = Append(events, e) /\ e.ev \in {"eof", "fail"}
        BY <2>5 DEF TellsLast
      <3> QED BY <1>1, <1>2, <2>3, <3>1, TellingPutsOut
    <2>6. CASE TellsEnd(Masters)
      <3>1. PICK e : events' = Append(events, e) /\ e.ev = "end"
        BY <2>6 DEF TellsEnd
      <3> QED BY <1>1, <1>2, <2>3, <3>1, TellingPutsOut
    <2>7. CASE TellsNode(Masters)
      <3>1. PICK e : events' = Append(events, e) /\ e.id \in ElementID
        BY <2>7 DEF TellsNode
      <3> QED BY <1>1, <1>2, <2>3, <3>1, TellingPutsOut
    <2> QED BY <2>2, <2>4, <2>5, <2>6, <2>7
  <1>4. CASE PullStarves
    <2>1. events' = events
      BY <1>4 DEF PullStarves, NextResolveBlocked, NextNeedsMore
    <2> QED BY <1>2, <2>1, NothingPutOut
  <1>5. CASE PayloadStarves \/ FillReadsNothing \/ \E n \in 1..Documents[doc].len : FillReads(n)
    <2>1. events' = events
      BY <1>5 DEF PayloadStarves, FillReadsNothing, FillReads, FeedChunk, vars
    <2> QED BY <1>2, <2>1, NothingPutOut
  <1>6. CASE FillEnds
    <2>1. Finalize /\ err = "none" /\ NothingToReport /\ call \in {"next", "payload"}
      BY <1>6 DEF FillEnds, Finalize, WalkInv, StreamInv
    <2>2. CASE err' # "none"
      <3>1. PICK e : events' = Append(events, e) /\ e.ev = "fail"
        BY <2>1, <2>2, FinalizeTellsFailures
      <3> QED BY <1>1, <1>2, <3>1, TellingPutsOut
    <2>3. CASE err' = "none"
      <3>1. events' = events
        <4>1. call' = call /\ held' = "none"
          BY <1>6, <2>3 DEF FillEnds, Finalize
        <4>2. call = "next"
          BY <1>1, <2>1, <2>3, <4>1 DEF StreamInv, LeafStaysValid
        <4>3. \A q : FinalizeEOFResult(doc, q) # "none"
          BY ReasonsAreGiven
        <4> QED BY <2>1, <2>3, <4>2, <4>3 DEF Finalize, Fail, NothingToReport
      <3> QED BY <1>2, <3>1, NothingPutOut
    <2> QED BY <2>2, <2>3
  <1> QED BY <1>3, <1>4, <1>5, <1>6 DEF Reading

\* The loop is over.
LEMMA OverPutsOut == ASSUME WalkInv, OutInv, WalkEnds \/ WalkFails \/ ReadFails PROVE OutInv'
  <1>1. /\ phase = "walking" /\ phase' = "closing"
        /\ UNCHANGED <<events, command, tags, out, encFailed, result>>
    <2>1. ReadFails => phase = "walking"
      BY DEF ReadFails, FillFails, WalkInv, StreamInv
    <2> QED BY <2>1 DEF WalkEnds, WalkFails, ReadFails, Pulled, Handled, FillFails, streamVars, vars
  <1>2. Len(events) \in Nat
    BY LenProperties DEF WalkInv, StreamInv, CursorInv, TypeOK
  <1>3. handled' <= Len(events') /\ (walkErr' = "none" => Elements = Tried)
    <2>1. CASE WalkEnds
      <3>1. Told.ev = "eof" /\ handled < Len(events)
        BY <2>1, PulledFacts DEF WalkEnds
      <3>2. Elements = Tried
        BY <1>1, <1>2, <3>1, InTheBody
      <3> QED BY <1>1, <1>2, <2>1, <3>2 DEF WalkEnds, Handled
    <2>2. CASE WalkFails
      <3>1. walkErr' # "none"
        BY <2>2, PulledFacts DEF WalkFails, OneInHand
      <3> QED BY <1>1, <1>2, <2>2, <3>1 DEF WalkFails, Handled
    <2>3. CASE ReadFails
      BY <1>1, <2>3 DEF ReadFails, OutInv
    <2> QED BY <2>1, <2>2, <2>3
  <1>4. Tried' = Tried /\ Elements' = Elements /\ Nearly
    BY <1>1, TriedIsShown, TriedLater DEF OutInv, Showing
  <1>5. Showing'
    BY <1>1, <1>3, <1>4 DEF Showing, Nearly, OutInv
  <1>6. WellFormed'
    BY <1>1 DEF WellFormed
  <1> QED BY <1>1, <1>3, <1>5, <1>6 DEF OutInv

\* What was left open is closed.
LEMMA ReturnPutsOut == ASSUME WalkInv, EndInv, OutInv, Return PROVE OutInv'
  <1>1. /\ phase = "closing" /\ phase' = "done" /\ tags' = << >>
        /\ UNCHANGED <<events, command, handled, walkErr>>
    BY DEF Return, streamVars, vars
  <1>2. /\ tags \in Seq(ElementID) /\ out \in Seq(Token) /\ encFailed \in BOOLEAN
        /\ command = "xml" /\ ~encFailed => Begun(out, Stack(tags))
        /\ walkErr = "none" => Elements = Tried
        /\ handled <= Len(events) /\ (encFailed => command = "xml") /\ Nearly
    BY <1>1 DEF OutInv, Showing
  <1>3. result' # "none" /\ (result' = "ok" => walkErr = "none")
    BY DEF Return, EndInv
  <1>4. tags' \in Seq(ElementID)
    BY <1>1, EmptySeq
  <1>5. /\ out' \in Seq(Token) /\ encFailed' \in BOOLEAN /\ Tried' = Tried
        /\ encFailed' => command = "xml"
        /\ command = "xml" /\ ~encFailed' => Finished(out')
    <2>1. CASE command = "dump"
      BY <1>2, <2>1, TriedIsShown, TriedLater DEF Return
    <2>2. CASE command = "xml"
      <3>1. Emit(ClosingTags)
        BY <2>2 DEF Return
      <3>2. PICK n \in 0..Len(ClosingTags) :
                   /\ out' = out \o SubSeq(ClosingTags, 1, n)
                   /\ encFailed' \in BOOLEAN
                   /\ encFailed' <=> encFailed \/ n < Len(ClosingTags)
        BY <3>1 DEF Emit
      <3>3. Len(ClosingTags) \in Nat
        BY <1>2, ClosingTagsAre
      <3>4. /\ out' \in Seq(Token) /\ ShownIn(out') = ShownIn(out)
            /\ n = Len(ClosingTags) /\ Begun(out, Stack(tags)) => Finished(out')
        BY <1>2, <3>2, ClosingTagsClose
      <3>5. ~encFailed' => n = Len(ClosingTags) /\ ~encFailed
        BY <3>2, <3>3
      <3> QED BY <1>2, <2>2, <3>2, <3>4, <3>5, TriedIsShown, TriedLater
    <2> QED BY <2>1, <2>2 DEF WalkInv
  <1>6. Elements' = Elements
    BY <1>1, TriedIsShown, TriedLater
  <1>7. Showing'
    BY <1>1, <1>2, <1>3, <1>5, <1>6 DEF Showing, Nearly
  <1>8. WellFormed'
    BY <1>1, <1>5 DEF WellFormed, Finished
  <1>9. handled' <= Len(events')
    BY <1>1, <1>2
  <1> QED BY <1>1, <1>3, <1>4, <1>5, <1>7, <1>8, <1>9 DEF OutInv

LEMMA OutNext == ASSUME WalkInv, EndInv, OutInv, [CliNext]_cliVars PROVE OutInv'
  <1>1. CASE AskNode \/ AskValue \/ UNCHANGED cliVars
    <2>1. UNCHANGED commandVars /\ UNCHANGED events
      BY <1>1 DEF AskNode, AskNext, AskValue, AskPayload, cliVars, commandVars, streamVars, vars
    <2> QED BY <2>1, NothingPutOut
  <1>2. CASE ShowHeader
    <2>1. /\ Told.ev = "leaf" /\ phase = "walking" /\ handled < Len(events)
          /\ Len(events) \in Nat
      BY <1>2, PulledFacts DEF ShowHeader
    <2>2. /\ handled' = Len(events) /\ UNCHANGED <<events, command, result>> /\ ShownLeaf(Told)
      BY <1>2 DEF ShowHeader, Handled, streamVars, vars
    <2> QED BY <2>1, <2>2, LeafPutsOut
  <1>3. CASE ShowValue
    <2>1. /\ call = "payload" /\ handled' = Len(events) /\ ShownLeaf(Told)
          /\ UNCHANGED <<events, command, result>>
      BY <1>3 DEF ShowValue, PayloadAnswered, Payload
    <2>2. phase = "walking" /\ OneInHand
      BY <2>1 DEF WalkInv, AllHandled
    <2>3. Told.ev = "leaf" /\ handled < Len(events)
      BY <2>1, <2>2 DEF OneInHand
    <2>4. Len(events) \in Nat
      BY LenProperties DEF WalkInv, StreamInv, CursorInv, TypeOK
    <2> QED BY <2>1, <2>2, <2>3, <2>4, LeafPutsOut
  <1> QED BY <1>1, <1>2, <1>3, OpenPutsOut, MasterPutsOut, EndPutsOut, OverPutsOut, ReturnPutsOut,
             ReadingPutsOut DEF CliNext

\* All but at most its last is a prefix.
LEMMA NearlyIsPrefix ==
  ASSUME OutInv
  PROVE  IsPrefix(Tried, Elements)
  <1>1. Tried \in Seq(ElementID)
    BY ShownMore, TriedIsShown, TokensOf DEF OutInv
  <1> DEFINE s == Tried
             n == Len(s)
  <1>2. s \in Seq(ElementID) /\ n \in Nat
    BY <1>1, LenProperties
  <1>3. Elements = s \/ \E id \in ElementID : Elements = Append(s, id)
    BY DEF OutInv, Showing, Nearly
  <1> HIDE DEF s
  <1>4. CASE Elements = s
    BY <1>2, <1>4 DEF IsPrefix, s
  <1>5. CASE Elements # s
    <2>1. PICK id \in ElementID : Elements = Append(s, id)
      BY <1>3, <1>5
    <2> DEFINE t == Append(s, id)
               a == SubSeq(s, 1, n)
               b == SubSeq(t, 1, n)
    <2>2. t \in Seq(ElementID) /\ Len(t) = n + 1 /\ \A i \in 1..n : t[i] = s[i]
      BY <1>2, AppendProperties
    <2> HIDE DEF t
    <2>3. a \in Seq(ElementID) /\ Len(a) = n /\ \A i \in 1..n : a[i] = s[i]
      BY <1>2
    <2>4. b \in Seq(ElementID) /\ Len(b) = n /\ \A i \in 1..n : b[i] = t[i]
      BY <1>2, <2>2
    <2> HIDE DEF a, b
    <2>5. a = b
      BY <2>2, <2>3, <2>4, SeqEqual
    <2>6. n <= Len(t)
      BY <1>2, <2>2
    <2> QED BY <2>1, <2>5, <2>6 DEF IsPrefix, a, b, s, t
  <1> QED BY <1>4, <1>5

-----------------------------------------------------------------------------
(* What xml loses: nothing.                                                *)

Kept == [token : {"start", "end", "line"}, id : ElementID \cup {Root}, depth : Nat]

XmlKeeps == command = "xml" => out \in Seq(Kept)

\* What the encoder takes of what is kept is kept.
LEMMA EmitKeeps ==
  ASSUME out \in Seq(Kept), NEW tokens \in Seq(Kept), Emit(tokens)
  PROVE  out' \in Seq(Kept)
  <1>1. PICK n \in 0..Len(tokens) : out' = out \o SubSeq(tokens, 1, n)
    BY DEF Emit
  <1> DEFINE taken == SubSeq(tokens, 1, n)
  <1>2. taken \in Seq(Kept)
    <2>1. Len(tokens) \in Nat
      BY LenProperties
    <2>2. \A i \in 1..n : tokens[i] \in Kept
      BY <2>1, ElementOfSeq
    <2> QED BY <2>1, <2>2, SubSeqProperties
  <1> HIDE DEF taken
  <1>3. out \o taken \in Seq(Kept)
    BY <1>2, ConcatProperties
  <1> QED BY <1>1, <1>3 DEF taken

LEMMA TagsAreKept ==
  \A id \in ElementID \cup {Root} : Start(id) \in Kept /\ End(id) \in Kept
  BY DEF Start, End, Kept

\* The end tags are kept.
LEMMA ClosingIsKept == ASSUME tags \in Seq(ElementID) PROVE ClosingTags \in Seq(Kept)
  <1> DEFINE c == ClosingTags
             n == Len(tags)
  <1>1. /\ c \in Seq(Token) /\ Len(c) = n + 1 /\ n \in Nat
        /\ \A i \in 1..n : c[i] = End(tags[n + 1 - i])
        /\ c[n + 1] = End(Root)
    BY ClosingTagsAre
  <1>2. \A i \in 1..n : tags[i] \in ElementID
    BY ElementOfSeq
  <1> HIDE DEF c, n
  <1>3. ASSUME NEW i \in 1..(n + 1)
        PROVE  c[i] \in Kept
    <2>1. CASE i = n + 1
      BY <1>1, <2>1, TagsAreKept
    <2>2. CASE i # n + 1
      <3>1. i \in 1..n /\ n + 1 - i \in 1..n
        BY <1>1, <2>2
      <3>2. tags[n + 1 - i] \in ElementID /\ c[i] = End(tags[n + 1 - i])
        BY <1>1, <1>2, <3>1
      <3> QED BY <3>2, TagsAreKept
    <2> QED BY <2>1, <2>2
  <1>4. c \in [1..(n + 1) -> Kept]
    BY <1>1, <1>3, LenProperties
  <1>5. n + 1 \in Nat
    BY <1>1
  <1>6. c \in Seq(Kept)
    BY <1>4, <1>5, SeqDef
  <1> QED BY <1>6 DEF c

LEMMA XmlKeepsNext == ASSUME WalkInv, OutInv, XmlKeeps, [CliNext]_cliVars PROVE XmlKeeps'
  <1>1. command' = command
    BY DEF CliNext, Open, AskNode, ShowMaster, ShowEnd, ShowHeader, AskValue, ShowValue, WalkEnds,
           WalkFails, ReadFails, Return, Reading, Handled, commandVars, cliVars
  <1> SUFFICES ASSUME command = "xml" PROVE out' \in Seq(Kept)
    BY <1>1 DEF XmlKeeps
  <1>2. out \in Seq(Kept) /\ tags \in Seq(ElementID)
    BY DEF XmlKeeps, OutInv
  <1>3. \A t \in Kept : \A u \in Kept : <<t>> \in Seq(Kept) /\ <<t, u>> \in Seq(Kept)
    OBVIOUS
  <1>4. CASE out' = out
    BY <1>2, <1>4
  <1>5. CASE Open
    <2>1. Emit(<<Start(Root)>>) /\ <<Start(Root)>> \in Seq(Kept)
      BY <1>3, <1>5, TagsAreKept DEF Open
    <2> QED BY <1>2, <2>1, EmitKeeps
  <1>6. CASE ShowMaster
    <2>1. Told.ev = "master" /\ phase = "walking" /\ handled < Len(events) /\ Len(events) \in Nat
      BY <1>6, PulledFacts DEF ShowMaster
    <2>2. Told.id \in ElementID
      BY <2>1, InTheBody
    <2>3. Emit(<<Start(Told.id)>>) /\ <<Start(Told.id)>> \in Seq(Kept)
      BY <1>3, <1>6, <2>2, TagsAreKept DEF ShowMaster
    <2> QED BY <1>2, <2>3, EmitKeeps
  <1>7. CASE ShowEnd
    <2>1. CASE tags = << >>
      BY <1>2, <1>7, <2>1 DEF ShowEnd
    <2>2. CASE tags # << >>
      <3>1. Top(tags) \in ElementID
        BY <1>2, <2>2, PopFacts
      <3>2. Emit(<<End(Top(tags))>>) /\ <<End(Top(tags))>> \in Seq(Kept)
        BY <1>3, <1>7, <2>2, <3>1, TagsAreKept DEF ShowEnd
      <3> QED BY <1>2, <3>2, EmitKeeps
    <2> QED BY <2>1, <2>2
  <1>8. CASE ShowHeader \/ ShowValue
    <2>1. ShownLeaf(Told) /\ Told.id \in ElementID
      <3>1. CASE ShowHeader
        <4>1. Told.ev = "leaf" /\ phase = "walking" /\ handled < Len(events)
              /\ Len(events) \in Nat
          BY <3>1, PulledFacts DEF ShowHeader
        <4> QED BY <3>1, <4>1, InTheBody DEF ShowHeader
      <3>2. CASE ShowValue
        <4>1. call = "payload" /\ ShownLeaf(Told)
          BY <3>2 DEF ShowValue, PayloadAnswered
        <4>2. phase = "walking" /\ OneInHand
          BY <4>1 DEF WalkInv, AllHandled
        <4>3. Told.ev = "leaf" /\ handled < Len(events)
          BY <4>1, <4>2 DEF OneInHand
        <4>4. Len(events) \in Nat
          BY LenProperties DEF WalkInv, StreamInv, CursorInv, TypeOK
        <4> QED BY <4>1, <4>2, <4>3, <4>4, InTheBody
      <3> QED BY <1>8, <3>1, <3>2
    <2>2. Emit(<<Start(Told.id), End(Told.id)>>)
      BY <2>1 DEF ShownLeaf
    <2>3. <<Start(Told.id), End(Told.id)>> \in Seq(Kept)
      BY <1>3, <2>1, TagsAreKept
    <2> QED BY <1>2, <2>2, <2>3, EmitKeeps
  <1>9. CASE Return
    <2>1. Emit(ClosingTags)
      BY <1>9 DEF Return
    <2> QED BY <1>2, <2>1, ClosingIsKept, EmitKeeps
  <1> QED BY <1>4, <1>5, <1>6, <1>7, <1>8, <1>9 DEF CliNext, AskNode, AskValue, WalkEnds, WalkFails,
             ReadFails, Reading, commandVars, cliVars

-----------------------------------------------------------------------------

\* What a command puts out, whatever the stream holds, however it ends and wherever the
\* encoder fails: the document xml writes is complete in itself unless the encoder
\* refused it (xml.go:155), the tags and the indentation are the nesting of the stream,
\* every element told of has its tags or its line and no other has, but for the lines
\* that dump's writer refused and of which dump says nothing; and success is of the whole.
THEOREM CommandsTellTheStream == CliSpec => []CliInv
  <1>1. CliInit => EndInv /\ XmlKeeps
    <2>1. << >> \in Seq(Kept)
      BY EmptySeq
    <2> QED BY <2>1 DEF CliInit, StreamInit, Init, EndInv, XmlKeeps
  <1>2. WalkInv /\ EndInv /\ [CliNext]_cliVars => EndInv'
    BY EndStep
  <1>3. WalkInv /\ EndInv /\ OutInv /\ [CliNext]_cliVars => OutInv'
    BY OutNext
  <1>3a. WalkInv /\ OutInv /\ XmlKeeps /\ [CliNext]_cliVars => XmlKeeps'
    BY XmlKeepsNext
  <1>4. WalkInv /\ OutInv /\ XmlKeeps => CliTypeOK /\ WellFormed /\ ResultIsTrue
    <2> SUFFICES ASSUME WalkInv, OutInv, XmlKeeps PROVE CliTypeOK /\ WellFormed /\ ResultIsTrue
      OBVIOUS
    <2>1. Len(events) \in Nat
      BY LenProperties DEF WalkInv, StreamInv, CursorInv, TypeOK
    <2>2. CliTypeOK
      BY <2>1 DEF CliTypeOK, WalkInv, OutInv, Token
    <2>3. command = "xml" => LostLines = {}
      <3> SUFFICES ASSUME command = "xml", NEW i \in DOMAIN out PROVE out[i].token # "lost"
        BY DEF LostLines
      <3>1. out \in Seq(Kept) /\ i \in 1..Len(out)
        BY LenProperties DEF XmlKeeps
      <3>2. out[i] \in Kept
        BY <3>1, ElementOfSeq
      <3> QED BY <3>2 DEF Kept
    <2>4. ResultIsTrue
      BY <2>3, NearlyIsPrefix DEF ResultIsTrue, OutInv, Showing
    <2> QED BY <2>2, <2>4 DEF OutInv
  <1>5. CliTypeOK /\ TagsMirrorTheMasters /\ WellFormed /\ IndentedAsNested
          /\ SuccessIsOfTheWhole /\ ResultIsTrue => CliInv
    BY DEF CliInv
  <1> QED BY <1>1, <1>2, <1>3, <1>3a, <1>4, <1>5, OutInit, WalkCorrect, TagsFollowTheMasters,
             LinesFollowTheNesting, SuccessIsComplete, PTL DEF CliSpec

=============================================================================
