--------------------------- MODULE FragmentReader ---------------------------
(***************************************************************************)
(* ext/fragment/reader.go: an assembler driven by a Reader that owns the     *)
(* source.  It reads when its consumer asks for a fragment and none is       *)
(* queued, and a failure waits until the queue has run out.                  *)
(***************************************************************************)
EXTENDS Assembler

VARIABLES
  step,        \* where next stands: "idle", "next", "feeding", "read", "finalizing"
  readErr,     \* what the source's Read returned with the bytes being fed
  queue,       \* fragments assembled and not delivered
  sourceDone,  \* the source said io.EOF
  sticky,      \* the failure to report when the queue runs out
  \* History.
  got,         \* the fragments delivered
  reported     \* how the iteration last ended: "none", "EOF" or the failure

rdVars == <<step, readErr, queue, sourceDone, sticky, got, reported>>
readerVars == <<asmVars, rdVars>>

RdInit ==
  /\ AsmInit
  /\ step = "idle" /\ readErr = "none"
  /\ queue = << >> /\ sourceDone = FALSE /\ sticky = "none"
  /\ got = << >> /\ reported = "none"

-----------------------------------------------------------------------------
(* next                                                                    *)

Ask == /\ step = "idle" /\ step' = "next"
       /\ UNCHANGED <<asmVars, readErr, queue, sourceDone, sticky, got, reported>>

Deliver ==
  /\ step = "next" /\ queue # << >>
  /\ got' = Append(got, Head(queue)) /\ queue' = Tail(queue)
  /\ step' = "idle"
  /\ UNCHANGED <<asmVars, readErr, sourceDone, sticky, reported>>

ReportFailure ==
  /\ step = "next" /\ queue = << >> /\ sticky # "none"
  /\ reported' = sticky /\ step' = "idle"
  /\ UNCHANGED <<asmVars, readErr, queue, sourceDone, sticky, got>>

ReportEnd ==
  /\ step = "next" /\ queue = << >> /\ sticky = "none" /\ sourceDone
  /\ reported' = "EOF" /\ step' = "idle"
  /\ UNCHANGED <<asmVars, readErr, queue, sourceDone, sticky, got>>

-----------------------------------------------------------------------------
(* fill.  A Read may return bytes and an error at once; one that returns      *)
(* neither is asked again and changes nothing.                              *)

Filling == step = "next" /\ queue = << >> /\ sticky = "none" /\ ~sourceDone

ReadSome(n) ==
  /\ Filling
  /\ AsmFeed(n)
  /\ readErr' \in {"none", "EOF", "Read"}
  /\ step' = "feeding"
  /\ UNCHANGED <<queue, sourceDone, sticky, got, reported>>

ReadNone ==
  /\ Filling
  /\ readErr' \in {"EOF", "Read"}
  /\ step' = "read"
  /\ UNCHANGED <<asmVars, queue, sourceDone, sticky, got, reported>>

\* The assembler's call that the Reader made runs.
Assembling ==
  /\ step \in {"feeding", "finalizing"} /\ call # "idle"
  /\ Running
  /\ UNCHANGED rdVars

\* Mutant: a failure discards the fragments that came with it.
CollectAllOrNothing ==
  /\ step \in {"feeding", "finalizing"} /\ call = "idle"
  /\ queue' = IF result = "none" THEN queue \o emitted ELSE queue
  /\ sticky' = result
  /\ step' = IF step = "feeding" /\ result = "none" THEN "read" ELSE "next"
  /\ UNCHANGED <<asmVars, readErr, sourceDone, got, reported>>

\* What the call returned is queued, whether it failed or not.
Collect ==
  /\ step \in {"feeding", "finalizing"} /\ call = "idle"
  /\ queue' = queue \o emitted
  /\ sticky' = result
  /\ step' = IF step = "feeding" /\ result = "none" THEN "read" ELSE "next"
  /\ UNCHANGED <<asmVars, readErr, sourceDone, got, reported>>

ReadWasFine ==
  /\ step = "read" /\ readErr = "none"
  /\ step' = "next"
  /\ UNCHANGED <<asmVars, readErr, queue, sourceDone, sticky, got, reported>>

\* Mutant: the failure is handed to the consumer and the source read again.
ReadFailedOnce ==
  /\ step = "read" /\ readErr = "Read"
  /\ reported' = "Read" /\ step' = "idle"
  /\ UNCHANGED <<asmVars, readErr, queue, sourceDone, sticky, got>>

\* A source that fails is not read again, and the assembler not finalized.
ReadFailed ==
  /\ step = "read" /\ readErr = "Read"
  /\ sticky' = "Read" /\ step' = "next"
  /\ UNCHANGED <<asmVars, readErr, queue, sourceDone, got, reported>>

\* Mutant: the end of the source does not finalize the assembler.
SourceEndsQuietly ==
  /\ step = "read" /\ readErr = "EOF"
  /\ sourceDone' = TRUE
  /\ step' = "next"
  /\ UNCHANGED <<asmVars, readErr, queue, sticky, got, reported>>

SourceEnds ==
  /\ step = "read" /\ readErr = "EOF"
  /\ sourceDone' = TRUE
  /\ AsmFinalize \/ FinalizeUnrecovered
  /\ step' = "finalizing"
  /\ UNCHANGED <<readErr, queue, sticky, got, reported>>

-----------------------------------------------------------------------------

Working ==
  \/ Deliver \/ ReportFailure \/ ReportEnd
  \/ (\E n \in 1..Documents[doc].len : ReadSome(n)) \/ ReadNone
  \/ Assembling \/ Collect \/ ReadWasFine \/ ReadFailed \/ SourceEnds

RdNext == Ask \/ Working

\* next runs on once it is called, and every Read returns.
RdSpec == RdInit /\ [][RdNext]_readerVars /\ WF_readerVars(Working)

-----------------------------------------------------------------------------

\* The variables have their types.
RdTypeOK ==
  /\ step \in {"idle", "next", "feeding", "read", "finalizing"}
  /\ readErr \in {"none", "EOF", "Read"}
  /\ queue \in Seq(FragmentType) /\ got \in Seq(FragmentType)
  /\ sourceDone \in BOOLEAN
  /\ sticky \in {"none", "Read"} \cup Failure
  /\ reported \in {"none", "EOF", "Read"} \cup Failure

\* What the assembler returned, the Reader delivers or still holds: each fragment
\* once, in order.  No fragment falls between the calls of the two.
NothingBetween ==
  delivered = got \o queue \o (IF step \in {"feeding", "finalizing"} /\ call = "idle"
                               THEN emitted ELSE << >>)

\* What the assembler has made: what its calls returned, and what the call that runs
\* has released so far.
Released == delivered \o (IF call = "idle" THEN << >> ELSE emitted)

\* The iteration as its consumer sees it (module Delivery).
D == INSTANCE Delivery WITH
       Verdict <- {"EOF", "Read"} \cup Failure,
       made <- Released, given <- got, wanted <- (step # "idle"), verdict <- reported

\* The Reader is a Delivery: through every split of the source into reads, every
\* recovery and every failure, a consumer gets the assembler's fragments in order,
\* each once, and no verdict before the last of them; ranged over again after its
\* end an iteration ends the same way and delivers nothing more (the doc of
\* Fragments).
ReaderImplementsDelivery == D!Spec

\* A consumer that asks is answered: with a fragment, a failure or the end.
AsksAreAnswered == step # "idle" ~> step = "idle"

\* What the doc comment of Fragments promises: a failure is reported after every
\* fragment that completed before it.
FailureComesLast == reported # "none" => waiting = NoFragment

\* The queue between Reader and assembler (reader.go:113): of its types, and
\* with nothing lost, repeated or overtaken on the way through it.
RdInv == RdTypeOK /\ NothingBetween

=============================================================================
