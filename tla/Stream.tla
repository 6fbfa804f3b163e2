------------------------------- MODULE Stream -------------------------------
(***************************************************************************)
(* stream/stream.go: a cursor and the io.Reader it is fed from.  A call of  *)
(* next or Payload asks the cursor, and as long as the cursor answers       *)
(* NeedMoreData it reads: bytes are fed, the end of the reader finalizes    *)
(* the cursor, and a read error is handed to the caller and forgotten.      *)
(***************************************************************************)
EXTENDS CursorReference

CONSTANT MaxHiccups   \* bound: how often the reader errs or reads nothing

ASSUME HiccupsAssumption == MaxHiccups \in Nat

VARIABLES
  call,        \* the call in progress: "idle", "next" or "payload"
  starved,     \* the cursor answered it with NeedMoreData
  drained,     \* the reader reported io.EOF
  sourceEnd,   \* where the reader ends (fixed): anywhere in the document
  hiccups      \* reads that brought nothing so far

streamVars == <<vars, call, starved, drained, sourceEnd, hiccups>>

StreamInit ==
  /\ Init
  /\ call = "idle" /\ starved = FALSE /\ drained = FALSE
  /\ sourceEnd \in Documents[doc].start..(Documents[doc].start + Documents[doc].len)
  /\ hiccups = 0

-----------------------------------------------------------------------------
(* The consumer.                                                           *)

\* The loop body decides on the node it was given; breaking off the loop leaves
\* no trace, so ranging again is only a later AskNext.
Decide ==
  /\ call = "idle"
  /\ Descend \/ SkipSubtree \/ SkipLeaf
  /\ UNCHANGED <<call, starved, drained, sourceEnd, hiccups>>

AskNext ==
  /\ call = "idle"
  /\ call' = "next"
  /\ UNCHANGED <<vars, starved, drained, sourceEnd, hiccups>>

\* Stream.Payload, on the leaf the consumer holds and has not decided on.
AskPayload ==
  /\ call = "idle" /\ held = "leaf" /\ decision = "none"
  /\ call' = "payload"
  /\ UNCHANGED <<vars, starved, drained, sourceEnd, hiccups>>

-----------------------------------------------------------------------------
(* The loops of next and of Payload.                                       *)

Answer ==
  \/ NextAgain \/ NextResolveFails \/ NextDequeue \/ NextRunsEOF
  \/ NextEOF \/ NextEnd \/ NextHeader \/ NextMalformed

PullAnswered ==
  /\ call = "next" /\ ~starved
  /\ Answer
  /\ call' = "idle"
  /\ UNCHANGED <<starved, drained, sourceEnd, hiccups>>

PullStarves ==
  /\ call = "next" /\ ~starved
  /\ NextResolveBlocked \/ NextNeedsMore
  /\ starved' = TRUE
  /\ UNCHANGED <<call, drained, sourceEnd, hiccups>>

PayloadAnswered ==
  /\ call = "payload" /\ ~starved
  /\ Payload
  /\ call' = "idle"
  /\ UNCHANGED <<starved, drained, sourceEnd, hiccups>>

PayloadStarves ==
  /\ call = "payload" /\ ~starved
  /\ PayloadResult(p) = "NeedMoreData"
  /\ starved' = TRUE
  /\ UNCHANGED <<vars, call, drained, sourceEnd, hiccups>>

-----------------------------------------------------------------------------
(* fill.                                                                   *)

FillReads(n) ==
  /\ starved /\ ~drained
  /\ p.fed + n <= sourceEnd
  /\ FeedChunk(n)
  /\ starved' = FALSE
  /\ UNCHANGED <<call, drained, sourceEnd, hiccups>>

\* Read returned (0, nil): fill reads again.
FillReadsNothing ==
  /\ starved /\ ~drained /\ hiccups < MaxHiccups
  /\ hiccups' = hiccups + 1
  /\ UNCHANGED <<vars, call, starved, drained, sourceEnd>>

\* Mutant: a failed read passes for the end of the input.
FillFailsAsEnd ==
  /\ starved /\ (drained \/ hiccups < MaxHiccups)
  /\ hiccups' = IF drained THEN hiccups ELSE hiccups + 1
  /\ starved' = FALSE /\ call' = "idle" /\ drained' = TRUE
  /\ IF drained THEN UNCHANGED vars ELSE Finalize
  /\ UNCHANGED sourceEnd

\* The read fails; or the stream is drained, and fill answers io.EOF unread.
FillFails ==
  /\ starved /\ (drained \/ hiccups < MaxHiccups)
  /\ hiccups' = IF drained THEN hiccups ELSE hiccups + 1
  /\ starved' = FALSE /\ call' = "idle"
  /\ UNCHANGED <<vars, drained, sourceEnd>>

\* Mutant: the end of the reader is remembered and the cursor not told of it.
FillEndsUntold ==
  /\ starved /\ ~drained /\ p.fed = sourceEnd
  /\ drained' = TRUE /\ starved' = FALSE
  /\ UNCHANGED <<vars, call, sourceEnd, hiccups>>

\* Mutant: fill reads until it has read something, at the end too.
FillEndsIgnored ==
  /\ starved /\ ~drained /\ p.fed = sourceEnd
  /\ UNCHANGED streamVars

\* io.EOF: the call goes on after a Finalize that succeeds, and returns the error
\* of one that does not.
FillEnds ==
  /\ starved /\ ~drained /\ p.fed = sourceEnd
  /\ drained' = TRUE /\ starved' = FALSE
  /\ Finalize
  /\ call' = IF err' = "none" THEN call ELSE "idle"
  /\ UNCHANGED <<sourceEnd, hiccups>>

Fill ==
  \/ \E n \in 1..Documents[doc].len : FillReads(n)
  \/ FillReadsNothing \/ FillFails \/ FillEnds

-----------------------------------------------------------------------------

Calls == PullAnswered \/ PullStarves \/ PayloadAnswered \/ PayloadStarves

StreamNext == Decide \/ AskNext \/ AskPayload \/ Calls \/ Fill

\* A call runs to its return, a reader that can deliver or end does not keep its
\* caller waiting for ever, and the consumer is a range loop: it asks again.
Fairness == WF_streamVars(Calls) /\ WF_streamVars(Fill) /\ WF_streamVars(AskNext)

StreamSpec == StreamInit /\ [][StreamNext]_streamVars /\ Fairness

-----------------------------------------------------------------------------

\* A reader is waited for only inside a call.
StreamTypeOK ==
  /\ call \in {"idle", "next", "payload"}
  /\ starved \in BOOLEAN /\ drained \in BOOLEAN
  /\ sourceEnd \in Nat /\ hiccups \in 0..MaxHiccups
  /\ starved => call # "idle"

\* fill is never asked of a drained stream.  Its io.EOF would end the iteration
\* like the end of a complete document, with whatever starved the cursor unread
\* and the truncation unreported: that a finalized cursor never answers
\* NeedMoreData again is the cursor's promise, kept by Finalize, Next and Payload
\* together.
NeverStarvedAtEnd == starved => ~drained

\* Between the reads of one Payload call the leaf stays the pending node and
\* undecided: feeding the cursor must not invalidate the node (stream.go, "the
\* node remains valid across those reads").
LeafStaysValid == call = "payload" => held = "leaf" /\ pending = "leaf" /\ decision = "none"

\* The states the loops of stream.go rely on.  A stream asks its reader only inside a
\* call and before the reader's end, and the leaf of Payload outlives the reads.
StreamSafe == StreamTypeOK /\ NeverStarvedAtEnd /\ LeafStaysValid

\* However the reader stuttered, failed and was asked again, what the iteration
\* reported is what the whole source says, up to where it is cut.
DeliversTheSource ==
  /\ IsPrefix(events, WholeInput(doc, skipped, sourceEnd))
  /\ Ended => events = WholeInput(doc, skipped, sourceEnd)

\* The range loop ends: the whole of a finite source is reported, or a failure.
IterationEnds == <>Ended

=============================================================================
