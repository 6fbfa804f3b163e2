----------------------------- MODULE Assembler -----------------------------
(***************************************************************************)
(* ext/fragment/assembler.go: a push-driven pull loop over a cursor that    *)
(* assembles one fragment per Cluster of a Segment, holds it until the      *)
(* Segment's metadata around it has settled, and, if asked to, recovers     *)
(* from structural damage by looking for the next top-level element.        *)
(*                                                                         *)
(* A call of Feed or Finalize is a series of steps: the pull loop takes one  *)
(* event, or one decision on it, at a time, and the call returns when the   *)
(* loop has drained the bytes fed.                                          *)
(***************************************************************************)
EXTENDS Cursor

CONSTANTS
  OptionSets,   \* the configurations: [resync, skipContent, maxPayload, done]
  Undecodable   \* the <<document, offset>> of SimpleBlocks that will not decode

\* skipContent and resync say whether the option's notify is set; done is the set
\* of IDs at whose completion the metadataComplete predicate says TRUE, empty when
\* there is none; a negative maxPayload is unlimited.
AssemblerOptions == [resync : BOOLEAN, skipContent : BOOLEAN, maxPayload : Int,
                     done : SUBSET ElementID]

\* KindOf is the registry's (classify.go, KindForElementID): it never answers with the
\* marker of a master's end.
ASSUME OptionsAssumption ==
  /\ OptionSets \subseteq AssemblerOptions
  /\ \A id \in ElementID : KindOf[id] # "endmaster"
  /\ \A d \in DOMAIN Documents : DOMAIN Documents[d].at \subseteq Nat
  /\ {"Segment", "Cluster"} \subseteq {id \in ElementID : KindOf[id] = "master"}
  /\ \A u \in Undecodable : u[1] \in DOMAIN Documents /\ u[2] \in DOMAIN Documents[u[1]].at

VARIABLES
  opts,        \* the configuration (fixed)
  call,        \* what is running: "idle", "feed", "scan", "resume", "finalize"
  outcome,     \* the drain's: "go" on, "ok", or the error it stopped at
  fresh,       \* the node Next reported has yet to be looked at
  retaining,   \* one entry per open master: the element retained, or NoNode
  segment,     \* the Segment being read,
  cluster,     \* the Cluster being assembled,
  blocks,      \* and its decoded SimpleBlocks
  waiting,     \* the fragment waiting for its metadata to settle
  asked,       \* the leaf whose payload was asked for: "none", "block", "retain"
  retained,    \* the retained elements: offset |-> [parent, payload]
  emitted,     \* the fragments released during this call
  resyncing,   \* a recovery is pending: there is no cursor
  cause,       \* the failure it recovers from
  failOffset,  \* where that failure was
  lastResync,  \* where parsing last resumed, -1 before
  failure,     \* a.err: the latched terminal failure
  closed,      \* a.finalized
  \* History.
  result,      \* the error the last call returned
  delivered,   \* the fragments all calls returned
  failed,      \* the first failure a call returned, and whether it gave up a recovery
  notified,    \* the recoveries WithResync's notify was told of
  dropped      \* the blocks WithSkipContentErrors' notify was told of

cursorVars == <<p, open, pending, decision, pendOpen, closes, finalized, eofRun, err,
                held, events, skipped>>
recovery == <<resyncing, cause, failOffset, lastResync, notified>>
content  == <<retaining, segment, cluster, blocks, waiting, asked, retained, emitted, dropped>>
control  == <<call, outcome, fresh, failure, closed, result, delivered, failed>>
asmVars  == <<vars, opts, recovery, content, control>>

NoNode == [id |-> "none", offset |-> -1]

NoFragment == [segment |-> -1, cluster |-> -1, blocks |-> << >>, truncated |-> FALSE,
               view |-> {}]

NotFailed == [why |-> "none", recovering |-> FALSE]

AsmInit ==
  /\ Init
  /\ opts \in OptionSets
  /\ call = "idle" /\ outcome = "ok" /\ fresh = FALSE
  /\ retaining = << >> /\ segment = NoNode /\ cluster = NoNode /\ blocks = << >>
  /\ waiting = NoFragment /\ asked = "none" /\ retained = << >> /\ emitted = << >>
  /\ resyncing = FALSE /\ cause = "none" /\ failOffset = 0 /\ lastResync = -1
  /\ failure = "none" /\ closed = FALSE
  /\ result = "none" /\ delivered = << >> /\ notified = << >> /\ dropped = << >>
  /\ failed = NotFailed

-----------------------------------------------------------------------------
(* Retention.                                                              *)

\* top: the retained element the next child belongs to.
Innermost(r) == IF r = << >> THEN NoNode ELSE Top(r)

Retain(node, payload) ==
  [o \in DOMAIN retained \cup {node.offset} |->
     IF o = node.offset
     THEN [parent |-> Innermost(retaining).offset, payload |-> payload]
     ELSE retained[o]]

SetPayload(o, payload) == [retained EXCEPT ![o] = [parent |-> @.parent, payload |-> payload]]

\* The Segment-level metadata a fragment shows: every fragment of a Segment shares
\* the Segment's tree.
ViewOf(tree, seg) == {o \in DOMAIN tree : tree[o].parent = seg}

\* The fragment f goes out, with the metadata visible from it in the tree.
HandOver(f, tree) ==
  /\ emitted' = IF f = NoFragment THEN emitted
                ELSE Append(emitted, [f EXCEPT !.view = ViewOf(tree, f.segment)])
  /\ waiting' = NoFragment

\* release
Release == HandOver(waiting, retained)

\* settle: f waits, and an element id completed with the masters r still open.
Settle(id, r, f, tree) ==
  IF f # NoFragment /\ id \in opts.done /\ Innermost(r) = segment
  THEN HandOver(f, tree)
  ELSE waiting' = f /\ UNCHANGED emitted

-----------------------------------------------------------------------------
(* drain: pull an event, then act on it.                                   *)

Draining == call \in {"feed", "resume", "finalize"} /\ outcome = "go"

Pull ==
  /\ Draining /\ ~fresh /\ asked = "none"
  /\ CursorNext
  /\ IF events' = events
     THEN fresh' = FALSE /\ outcome' = "ok"
     ELSE LET e == Top(events')
          IN /\ fresh' = (e.ev \in {"master", "leaf", "end"})
             /\ outcome' = IF e.ev = "fail" THEN e.why
                           ELSE IF e.ev = "eof" THEN "ok" ELSE "go"
  /\ UNCHANGED <<opts, recovery, content, call, failure, closed, result, delivered, failed>>

Node == Top(events)
NodeRef == [id |-> Node.id, offset |-> Node.offset]

Acting(ev) == Draining /\ fresh /\ Node.ev = ev

Acted == fresh' = FALSE /\ UNCHANGED <<opts, recovery, call, outcome, failure, closed,
                                       result, delivered, failed, dropped>>

\* A Segment outside a Segment is descended into and becomes the current one.
EnterSegment ==
  /\ Acting("master") /\ segment = NoNode /\ Node.id = "Segment"
  /\ segment' = NodeRef
  /\ retaining' = Append(retaining, NodeRef)
  /\ Descend /\ Acted
  /\ UNCHANGED <<cluster, blocks, waiting, asked, retained, emitted>>

\* Any other master outside a Segment is declined, or, without an end to skip to,
\* entered and not retained.
DeclineMaster ==
  /\ Acting("master") /\ segment = NoNode /\ Node.id # "Segment"
  /\ IF Node.size = UnknownSize
     THEN Descend /\ retaining' = Append(retaining, NoNode)
     ELSE SkipSubtree /\ UNCHANGED retaining
  /\ Acted
  /\ UNCHANGED <<segment, cluster, blocks, waiting, asked, retained, emitted>>

\* A Cluster of the Segment ends the wait of the one before it.
EnterCluster ==
  /\ Acting("master") /\ segment # NoNode
  /\ Node.id = "Cluster" /\ Innermost(retaining) = segment
  /\ Release
  /\ cluster' = NodeRef /\ blocks' = << >>
  /\ retaining' = Append(retaining, NodeRef)
  /\ Descend /\ Acted
  /\ UNCHANGED <<segment, asked, retained>>

EnterRetained ==
  /\ Acting("master") /\ segment # NoNode
  /\ ~(Node.id = "Cluster" /\ Innermost(retaining) = segment)
  /\ retained' = Retain(NodeRef, "none")
  /\ retaining' = Append(retaining, NodeRef)
  /\ Descend /\ Acted
  /\ UNCHANGED <<segment, cluster, blocks, waiting, asked, emitted>>

DropLeaf ==
  /\ Acting("leaf") /\ (segment = NoNode \/ Innermost(retaining) = NoNode)
  /\ SkipLeaf /\ Acted
  /\ UNCHANGED <<retaining, segment, cluster, blocks, waiting, asked, retained, emitted>>

RetainedLeaf == Acting("leaf") /\ segment # NoNode /\ Innermost(retaining) # NoNode

IsBlock == Node.id = "SimpleBlock" /\ cluster # NoNode

OverCap == opts.maxPayload >= 0 /\ Node.size > opts.maxPayload

AskBlock ==
  /\ RetainedLeaf /\ IsBlock
  /\ retained' = Retain(NodeRef, "elided")
  /\ asked' = "block"
  /\ Acted
  /\ UNCHANGED <<vars, retaining, segment, cluster, blocks, waiting, emitted>>

\* A payload over the cap is left unread, and the leaf is complete at once.
ElideLeaf ==
  /\ RetainedLeaf /\ ~IsBlock /\ OverCap
  /\ retained' = Retain(NodeRef, "elided")
  /\ SkipLeaf /\ Acted
  /\ Settle(Node.id, retaining, waiting, retained')
  /\ UNCHANGED <<retaining, segment, cluster, blocks, asked>>

AskLeaf ==
  /\ RetainedLeaf /\ ~IsBlock /\ ~OverCap
  /\ retained' = Retain(NodeRef, "none")
  /\ asked' = "retain"
  /\ Acted
  /\ UNCHANGED <<vars, retaining, segment, cluster, blocks, waiting, emitted>>

-----------------------------------------------------------------------------
(* readPayload: retried by every drain until the bytes are in.             *)

\* Mutant: the drain goes on while the bytes are out.
AwaitPayloadBusy ==
  /\ Draining /\ asked # "none"
  /\ PayloadResult(p) = "NeedMoreData"
  /\ UNCHANGED asmVars

AwaitPayload ==
  /\ Draining /\ asked # "none"
  /\ PayloadResult(p) = "NeedMoreData"
  /\ outcome' = "ok"
  /\ UNCHANGED <<vars, opts, recovery, content, call, fresh, failure, closed, result, delivered,
                 failed>>

Taking == Draining /\ asked' = "none" /\ Payload

TakeBlock ==
  /\ asked = "block" /\ Taking
  /\ IF <<doc, Node.offset>> \notin Undecodable
     THEN blocks' = Append(blocks, Node.offset) /\ UNCHANGED <<outcome, dropped>>
     ELSE IF opts.skipContent
     THEN dropped' = Append(dropped, Node.offset) /\ UNCHANGED <<blocks, outcome>>
     ELSE outcome' = "Content" /\ UNCHANGED <<blocks, dropped>>
  /\ UNCHANGED <<opts, recovery, retaining, segment, cluster, waiting, retained, emitted,
                 call, fresh, failure, closed, result, delivered, failed>>

TakeLeaf ==
  /\ asked = "retain" /\ Taking
  /\ retained' = SetPayload(Node.offset, "held")
  /\ Settle(Node.id, retaining, waiting, retained)
  /\ UNCHANGED <<opts, recovery, retaining, segment, cluster, blocks, dropped,
                 call, outcome, fresh, failure, closed, result, delivered, failed>>

-----------------------------------------------------------------------------
(* end: a master ended, and its entry is popped.                           *)

\* pop's own checks: there is an entry, and it is the ending master's.
Popped == retaining # << >> /\ (Top(retaining) = NoNode \/ Top(retaining).id = Node.id)

EndMismatch ==
  /\ fresh' = FALSE /\ outcome' = "Bookkeeping"
  /\ UNCHANGED <<vars, opts, recovery, content, call, failure, closed, result, delivered, failed>>

EndCluster ==
  /\ Popped /\ Top(retaining) = cluster /\ cluster # NoNode
  /\ retaining' = Pop(retaining)
  /\ cluster' = NoNode /\ blocks' = << >>
  /\ LET f == [segment |-> segment.offset, cluster |-> cluster.offset, blocks |-> blocks,
               truncated |-> FALSE, view |-> {}]
     IN Settle(Node.id, Pop(retaining), f, retained)
  /\ UNCHANGED <<vars, segment, asked, retained>>
  /\ Acted

EndSegment ==
  /\ Popped /\ Top(retaining) = segment /\ segment # NoNode
  /\ retaining' = Pop(retaining)
  /\ Release
  /\ segment' = NoNode /\ cluster' = NoNode /\ blocks' = << >>
  /\ UNCHANGED <<vars, asked, retained>>
  /\ Acted

EndOther ==
  /\ Popped /\ (Top(retaining) = NoNode \/ Top(retaining) \notin {cluster, segment})
  /\ retaining' = Pop(retaining)
  /\ Settle(Node.id, Pop(retaining), waiting, retained)
  /\ UNCHANGED <<vars, segment, cluster, blocks, asked, retained>>
  /\ Acted

End == Acting("end") /\ IF Popped THEN EndCluster \/ EndSegment \/ EndOther ELSE EndMismatch

Drain ==
  \/ Pull
  \/ EnterSegment \/ DeclineMaster \/ EnterCluster \/ EnterRetained
  \/ DropLeaf \/ AskBlock \/ ElideLeaf \/ AskLeaf
  \/ AwaitPayload \/ TakeBlock \/ TakeLeaf
  \/ End

-----------------------------------------------------------------------------
(* Recovery.                                                               *)

\* newCursor at offset at, with everything fed from there on.  While there is no
\* cursor, p stands for the bytes kept: they begin at p.pos.
NewCursorAt(at) ==
  /\ p' = [fed |-> p.fed, pos |-> at, stack |-> << >>, current |-> NoElement]
  /\ open' = << >> /\ closes' = << >>
  /\ pending' = "none" /\ decision' = "none" /\ pendOpen' = NoMaster
  /\ finalized' = FALSE /\ eofRun' = FALSE
  /\ err' = "none" /\ held' = "none" /\ events' = << >>
  /\ UNCHANGED <<doc, skipped>>

\* Mutant: nothing is reset.
ResetSegmentNot == UNCHANGED <<segment, cluster, blocks>>

ResetSegment == segment' = NoNode /\ cluster' = NoNode /\ blocks' = << >>

\* parser.IsStructural
Structural == outcome \in Malformed \cup Incomplete

\* Mutant: the fragment held stays behind.
RecordFailureHolding ==
  /\ failOffset' = p.pos /\ cause' = outcome /\ resyncing' = TRUE
  /\ NewCursorAt(p.pos)
  /\ call' = "scan" /\ outcome' = "ok"
  /\ UNCHANGED <<opts, lastResync, notified, retaining, segment, cluster, blocks, asked,
                 retained, dropped, fresh, failure, closed, result, delivered, failed, emitted,
                 waiting>>

\* recordFailure: the cursor is abandoned where it came to rest, its bytes kept.
RecordFailure ==
  /\ Release
  /\ failOffset' = p.pos /\ cause' = outcome /\ resyncing' = TRUE
  /\ NewCursorAt(p.pos)
  /\ call' = "scan" /\ outcome' = "ok"
  /\ UNCHANGED <<opts, lastResync, notified, retaining, segment, cluster, blocks, asked,
                 retained, dropped, fresh, failure, closed, result, delivered, failed>>

IDBytes == 4   \* the encoded length of a top-level element ID

\* Where the bytes of a top-level ID begin: such elements, and what looks like one.
TopLevel == {o \in DOMAIN Documents[doc].at : Documents[doc].at[o].id \in {"EBML", "Segment"}}

\* Mutant: parsing resumes where it last did.
ResumeFromSamePlace == failOffset

\* findBoundary: the candidates from which parsing may resume, each of them after
\* the last such place.
ResumeFrom == IF failOffset <= lastResync THEN lastResync + 1 ELSE failOffset

Candidates == {o \in TopLevel : o >= ResumeFrom /\ o >= p.pos /\ o + IDBytes <= p.fed}

\* Mutant: the first byte of an ID split between chunks is dropped.
CompactedShort == IF p.fed - p.pos <= IDBytes - 2 THEN p.pos ELSE p.fed - (IDBytes - 2)

\* compactTail: what can no longer begin a top-level ID is dropped.
Compacted == IF p.fed - p.pos <= IDBytes - 1 THEN p.pos ELSE p.fed - (IDBytes - 1)

-----------------------------------------------------------------------------
(* Calls and their returns.                                                *)

Failure == Malformed \cup Incomplete \cup {"Content"}

Return(error) ==
  /\ call' = "idle" /\ outcome' = "ok"
  /\ result' = error
  /\ delivered' = delivered \o emitted'
  /\ failed' = IF failed = NotFailed /\ error \in Failure
             THEN [why |-> error, recovering |-> resyncing] ELSE failed

\* resume resets everything of the Segment, tells notify, and reads on.
ScanFinds ==
  /\ call = "scan" /\ Candidates # {}
  /\ LET at == CHOOSE o \in Candidates : \A c \in Candidates : o <= c
     IN /\ NewCursorAt(at)
        /\ lastResync' = at
        /\ notified' = Append(notified, [at |-> at, skipped |-> at - failOffset, cause |-> cause])
  /\ resyncing' = FALSE /\ cause' = "none"
  /\ ResetSegment /\ retaining' = << >> /\ asked' = "none" /\ fresh' = FALSE
  /\ call' = "resume" /\ outcome' = "go"
  /\ UNCHANGED <<opts, failOffset, waiting, retained, emitted, dropped, failure, closed,
                 result, delivered, failed>>

ScanStarves ==
  /\ call = "scan" /\ Candidates = {}
  /\ p' = At(p, Compacted, << >>, NoElement)
  /\ UNCHANGED emitted
  /\ Return("none")
  /\ UNCHANGED <<doc, open, pending, decision, pendOpen, closes, finalized, eofRun, err, held,
                 events, skipped, opts, recovery, retaining, segment, cluster, blocks, waiting,
                 asked, retained, dropped, fresh, failure, closed>>

\* A latched failure is reported by every entry point, before anything else.
CallAfterFailure ==
  /\ call = "idle" /\ failure # "none"
  /\ emitted' = << >>
  /\ Return(failure)
  /\ UNCHANGED <<vars, opts, recovery, retaining, segment, cluster, blocks, waiting, asked,
                 retained, dropped, fresh, failure, closed>>

\* Feed of a finalized assembler; a second Finalize is harmless.
CallAfterFinalize ==
  /\ call = "idle" /\ failure = "none" /\ closed
  /\ emitted' = << >>
  /\ \E error \in {"AlreadyFinalized", "none"} : Return(error)
  /\ UNCHANGED <<vars, opts, recovery, retaining, segment, cluster, blocks, waiting, asked,
                 retained, dropped, fresh, failure, closed>>

Accepting == call = "idle" /\ failure = "none" /\ ~closed

AsmFeed(n) ==
  /\ Accepting
  /\ FeedChunk(n)
  /\ emitted' = << >>
  /\ IF resyncing THEN call' = "scan" /\ outcome' = "ok" ELSE call' = "feed" /\ outcome' = "go"
  /\ UNCHANGED <<opts, recovery, retaining, segment, cluster, blocks, waiting, asked, retained,
                 dropped, fresh, failure, closed, result, delivered, failed>>

FeedReturns ==
  /\ call \in {"feed", "resume"} /\ outcome = "ok"
  /\ UNCHANGED <<vars, opts, recovery, content, fresh, failure, closed>>
  /\ Return("none")

FeedRecovers ==
  /\ call \in {"feed", "resume"} /\ Structural /\ opts.resync
  /\ RecordFailure

\* Mutant: a block that will not decode is reported, and not latched.
FeedFailsUnlatched ==
  /\ call \in {"feed", "resume"} /\ outcome \notin {"go", "ok"}
  /\ ~(Structural /\ opts.resync)
  /\ IF call = "feed" THEN Release ELSE UNCHANGED <<emitted, waiting>>
  /\ failure' = IF Structural THEN outcome ELSE failure
  /\ Return(outcome)
  /\ UNCHANGED <<vars, opts, recovery, retaining, segment, cluster, blocks, asked, retained,
                 dropped, fresh, closed>>

\* The fragment held goes with a failure of the first drain; one that follows a
\* recovery in the same call has no fragment to hold.
FeedFails ==
  /\ call \in {"feed", "resume"} /\ outcome \notin {"go", "ok"}
  /\ ~(Structural /\ opts.resync)
  /\ IF call = "feed" THEN Release ELSE UNCHANGED <<emitted, waiting>>
  /\ failure' = outcome
  /\ Return(outcome)
  /\ UNCHANGED <<vars, opts, recovery, retaining, segment, cluster, blocks, asked, retained,
                 dropped, fresh, closed>>

\* With a recovery pending there is nothing more to scan: its cause is returned.
FinalizeUnrecovered ==
  /\ Accepting /\ resyncing
  /\ emitted' = << >>
  /\ closed' = TRUE /\ resyncing' = FALSE /\ cause' = "none"
  /\ Return(cause)
  /\ UNCHANGED <<vars, opts, failOffset, lastResync, notified, retaining, segment, cluster,
                 blocks, waiting, asked, retained, dropped, fresh, failure>>

\* The leaf whose payload is outstanding is given up, and the cursor finalized.
AsmFinalize ==
  /\ Accepting /\ ~resyncing
  /\ emitted' = << >>
  /\ closed' = TRUE
  /\ retained' = IF asked = "retain" THEN SetPayload(Node.offset, "elided") ELSE retained
  /\ asked' = "none"
  /\ Finalize
  /\ call' = "finalize" /\ outcome' = IF err' = "none" THEN "go" ELSE err'
  /\ UNCHANGED <<opts, recovery, retaining, segment, cluster, blocks, waiting, dropped, fresh,
                 failure, result, delivered, failed>>

FinalizeReturns ==
  /\ call = "finalize" /\ outcome = "ok"
  /\ Release
  /\ Return("none")
  /\ UNCHANGED <<vars, opts, recovery, retaining, segment, cluster, blocks, asked, retained,
                 dropped, fresh, failure, closed>>

\* salvage: the fragment waiting, then the Cluster the input was cut in.
FinalizeFails ==
  /\ call = "finalize" /\ outcome \notin {"go", "ok"}
  /\ LET before == IF waiting = NoFragment THEN emitted
                   ELSE Append(emitted, [waiting EXCEPT !.view = ViewOf(retained, waiting.segment)])
         cut == [segment |-> segment.offset, cluster |-> cluster.offset, blocks |-> blocks,
                 truncated |-> TRUE, view |-> ViewOf(retained, segment.offset)]
     IN IF cluster = NoNode
        THEN emitted' = before /\ UNCHANGED <<segment, cluster, blocks>>
        ELSE emitted' = Append(before, cut) /\ ResetSegment
  /\ waiting' = NoFragment
  /\ failure' = outcome
  /\ Return(outcome)
  /\ UNCHANGED <<vars, opts, recovery, retaining, asked, retained, dropped, fresh, closed>>

-----------------------------------------------------------------------------

Running ==
  \/ Drain
  \/ ScanFinds \/ ScanStarves
  \/ FeedReturns \/ FeedRecovers \/ FeedFails \/ FinalizeReturns \/ FinalizeFails

AsmNext ==
  \/ \E n \in 1..Documents[doc].len : AsmFeed(n)
  \/ AsmFinalize \/ FinalizeUnrecovered
  \/ CallAfterFailure \/ CallAfterFinalize
  \/ Running

\* A call that was made runs on: the assembler waits for no one.
AsmSpec == AsmInit /\ [][AsmNext]_asmVars /\ WF_asmVars(Running)

-----------------------------------------------------------------------------
(* Types.                                                                  *)

Offset == Nat \cup {-1}

NodeName == [id : ElementID \cup {"none"}, offset : Offset]

FragmentType == [segment : Offset, cluster : Offset, blocks : Seq(Nat),
                 truncated : BOOLEAN, view : SUBSET Nat]

\* The variables have their types.
AsmTypeOK ==
  /\ opts \in AssemblerOptions
  /\ call \in {"idle", "feed", "scan", "resume", "finalize"}
  /\ outcome \in {"go", "ok"} \cup Failure
  /\ fresh \in BOOLEAN /\ resyncing \in BOOLEAN /\ closed \in BOOLEAN
  /\ retaining \in Seq(NodeName)
  /\ segment \in NodeName /\ cluster \in NodeName
  /\ blocks \in Seq(Nat) /\ dropped \in Seq(Nat)
  /\ waiting \in FragmentType
  /\ asked \in {"none", "block", "retain"}
  /\ DOMAIN retained \subseteq Nat
  /\ \A o \in DOMAIN retained :
       retained[o] \in [parent : Offset, payload : {"none", "held", "elided"}]
  /\ emitted \in Seq(FragmentType) /\ delivered \in Seq(FragmentType)
  /\ cause \in {"none"} \cup Malformed
  /\ failOffset \in Nat /\ lastResync \in Offset
  /\ failure \in {"none"} \cup Failure
  /\ result \in {"none", "AlreadyFinalized"} \cup Failure
  /\ failed \in [why : {"none"} \cup Failure, recovering : BOOLEAN]
  /\ notified \in Seq([at : Nat, skipped : Nat, cause : Malformed])

-----------------------------------------------------------------------------
(* Safety.                                                                 *)

\* The assembler's list of open elements is the cursor's, level by level, once the
\* event in hand is dealt with: a master that was entered is retained exactly when
\* it is inside the Segment, so that there a child has a parent to be appended to.
OpenMirror ==
  ~resyncing /\ ~fresh /\ (closed => call = "finalize") =>
    LET entered == IF pending = "master" /\ decision = "descend" THEN Append(open, pendOpen)
                   ELSE open
        Inside(i) == segment # NoNode /\ \E j \in 1..i : retaining[j] = segment
    IN /\ Len(retaining) = Len(entered)
       /\ \A i \in DOMAIN retaining :
            retaining[i] = IF Inside(i)
                           THEN [id |-> entered[i].id, offset |-> entered[i].offset]
                           ELSE NoNode

\* At most one fragment is ever held, and none once the next Cluster has begun:
\* that is why a block that will not decode cannot take a fragment with it.
HeldBeforeOpen == waiting # NoFragment => cluster = NoNode /\ segment # NoNode

\* A failure that a call has returned is final (assembler.go:320, :329): every call
\* that returns after it, however many steps it takes, returns that failure and no
\* fragment.  The one with which Finalize gives up a pending recovery is told once
\* (assembler.go:396): after it a Feed is an invalid use and a Finalize harmless, and
\* neither returns a fragment.
FailureIsFinal ==
  [][failed # NotFailed /\ call' = "idle" =>
       /\ delivered' = delivered
       /\ ~failed.recovering => result' = failed.why
       /\ failed.recovering => result' \in {"AlreadyFinalized", "none"}]_asmVars

\* "Every error is terminal and reported again by every later call" (assembler.go:320).
\* The model refutes it (README, section 7).
FailureIsFinalAlways ==
  [][failed # NotFailed /\ call' = "idle" => result' = failed.why]_asmVars

\* Each recovery resumes at or after the failure it recovers from and after the
\* recovery before it, so damage that looks like a top-level element cannot keep
\* the assembler going round in one place.
RecoveryAdvances ==
  \A i \in DOMAIN notified :
    notified[i].skipped >= 0 /\ (i > 1 => notified[i].at > notified[i - 1].at)

\* Every call returns: no run of events, of recoveries that fail again, or of
\* payloads that have not arrived, keeps the assembler busy.
CallsReturn == call # "idle" ~> call = "idle"

\* What the handlers of the events rely on: the state's types, and under every
\* child an open element of the assembler for each of the cursor's.
AsmInv == AsmTypeOK /\ OpenMirror

=============================================================================
