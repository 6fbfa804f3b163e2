------------------------------- MODULE Cursor -------------------------------
(***************************************************************************)
(* The event cursor of parser/cursor.go: a consumer calls Next to be told   *)
(* of masters, leaves and ends of masters, decides what becomes of each,    *)
(* and feeds the input in chunks of its own choosing.                       *)
(*                                                                         *)
(* The cursor keeps its own stack of open masters beside the parser's and   *)
(* carries out the decision left on a node at the following Next.           *)
(***************************************************************************)
EXTENDS Parser, FiniteSets

CONSTANTS
  Boundary     \* the BoundaryFunc: pairs <<open, next>> for which it says TRUE

VARIABLES
  doc,         \* the input being read (fixed)
  p,           \* the parser the cursor drives
  open,        \* the cursor's own stack of open masters
  pending,     \* what kind of node awaits its decision: pendNone/Master/Leaf
  decision,    \* the decision taken on it
  pendOpen,    \* the open-master entry of a pending master
  closes,      \* masters closed by FinalizeEOF, still to be reported
  finalized,   \* Finalize was called
  eofRun,      \* FinalizeEOF was run
  err,         \* the latched failure, "none" while there is none
  held,        \* which node of the current generation the consumer holds
  \* History.
  events,      \* the nodes and the final outcome Next reported, in order
  skipped      \* the offsets of the masters the consumer skipped

state == <<doc, p, open, pending, decision, pendOpen, closes, finalized, eofRun, err>>
vars  == <<doc, p, open, pending, decision, pendOpen, closes, finalized, eofRun, err,
           held, events, skipped>>

NoMaster == [id |-> "none", offset |-> 0, size |-> 0]

Ended == err # "none" \/ (events # << >> /\ Top(events).ev = "eof")

-----------------------------------------------------------------------------
(* Nodes.                                                                  *)

\* endOf: one past the element, or UnknownSize.
EndOf(h, offset) ==
  IF h.size = UnknownSize THEN UnknownSize ELSE offset + HeaderLen(h) + h.size

ElementNode(ev, h, offset, depth) ==
  [ev |-> ev, id |-> h.id, depth |-> depth, offset |-> offset, size |-> h.size,
   end |-> EndOf(h, offset), why |-> "none"]

EndNode(om, depth, end, reason) ==
  [ev |-> "end", id |-> om.id, depth |-> depth, offset |-> om.offset, size |-> om.size,
   end |-> end, why |-> reason]

Outcome(ev, why) ==
  [ev |-> ev, id |-> "none", depth |-> 0, offset |-> 0, size |-> 0, end |-> 0, why |-> why]

-----------------------------------------------------------------------------
(* Decisions: allowed once, on a node of the current generation.           *)

Descend ==
  /\ held = "master" /\ decision = "none"
  /\ decision' = "descend"
  /\ UNCHANGED <<doc, p, open, pending, pendOpen, closes, finalized, eofRun, err,
                 held, events, skipped>>

SkipSubtree ==
  /\ held = "master" /\ decision = "none"
  /\ decision' = "skipSubtree"
  /\ skipped' = skipped \cup {pendOpen.offset}
  /\ UNCHANGED <<doc, p, open, pending, pendOpen, closes, finalized, eofRun, err,
                 held, events>>

SkipLeaf ==
  /\ held = "leaf" /\ decision = "none"
  /\ decision' = "skipPayload"
  /\ UNCHANGED <<doc, p, open, pending, pendOpen, closes, finalized, eofRun, err,
                 held, events, skipped>>

\* LeafNode.Payload consumes the payload once it has all arrived; before that it
\* reports NeedMoreData and changes nothing.
Payload ==
  /\ held = "leaf" /\ decision = "none"
  /\ PayloadResult(p) = "ok"
  /\ p' = StepOver(p)
  /\ decision' = "payloadDone"
  /\ UNCHANGED <<doc, open, pending, pendOpen, closes, finalized, eofRun, err,
                 held, events, skipped>>

-----------------------------------------------------------------------------
(* resolve: carry out the decision left on the previous node.              *)

ResolveResult ==
  IF pending = "master" /\ decision = "skipSubtree"
  THEN IF pendOpen.size = UnknownSize THEN "SkipUnknownSize" ELSE PayloadResult(p)
  ELSE IF pending = "master" THEN EnterMasterResult(p)
  ELSE IF pending = "leaf" /\ decision # "payloadDone" THEN SkipPayloadResult(p)
  ELSE "ok"

ResolvedParser ==
  IF pending = "master" /\ decision # "skipSubtree" THEN EnterMaster(p)
  ELSE IF pending = "master" \/ (pending = "leaf" /\ decision # "payloadDone") THEN StepOver(p)
  ELSE p

\* Mutant: a master whose subtree was skipped is entered all the same.
ResolvedOpenAlways ==
  IF pending = "master" THEN Append(open, pendOpen) ELSE open


ResolvedOpen ==
  IF pending = "master" /\ decision # "skipSubtree" THEN Append(open, pendOpen) ELSE open

Settled == pending' = "none" /\ decision' = "none" /\ pendOpen' = NoMaster

-----------------------------------------------------------------------------
(* What Next reports.                                                      *)

Fail(why) ==
  /\ err' = why
  /\ events' = Append(events, Outcome("fail", why))
  /\ held' = "none"

\* issueEnd: pop the cursor's stack and report the end of what was on top.
IssueEnd(q, o, end, reason) ==
  IF o = << >>
  THEN /\ Fail("NoOpenMaster")
       /\ p' = q /\ open' = o
  ELSE /\ open' = Pop(o)
       /\ p' = q
       /\ events' = Append(events, EndNode(Top(o), Len(o) - 1, end, reason))
       /\ held' = "end"
       /\ UNCHANGED err

\* dequeueClose: report the next of the masters that FinalizeEOF closed.
DequeueClose(q, o, cs) ==
  /\ closes' = Tail(cs)
  /\ IF o = << >>
     THEN Fail("NeverEntered") /\ p' = q /\ open' = o
     ELSE IF Top(o).id # Head(cs).id
          THEN Fail("StackMismatch") /\ p' = q /\ open' = o
          ELSE IssueEnd(q, o, Head(cs).end, "EndOfInput")

\* A header that cannot belong to the innermost, unknown-size master ends it.
CrossesBoundary(q, o, h) ==
  /\ o # << >>
  /\ Top(o).size = UnknownSize
  /\ <<Top(o).id, h.id>> \in Boundary

\* advance, when the parser has something to report.
AdvanceHeader(q, o) ==
  LET h == HeaderAt(doc, q.pos)
  IN IF KindOf[h.id] = "endmaster"
     THEN Fail("Classifier") /\ p' = q /\ open' = o /\ Settled
     ELSE IF CrossesBoundary(q, o, h)
     THEN /\ Settled
          /\ IF CloseMasterResult(q) # "ok"
             THEN Fail(CloseMasterResult(q)) /\ p' = q /\ open' = o
             ELSE IssueEnd(PopMaster(q), o, q.pos, "Boundary")
     ELSE /\ p' = ConsumeHeader(doc, q)
          /\ open' = o
          /\ pending' = KindOf[h.id]
          /\ decision' = "none"
          /\ pendOpen' = IF KindOf[h.id] = "master"
                         THEN [id |-> h.id, offset |-> q.pos, size |-> h.size]
                         ELSE NoMaster
          /\ events' = Append(events, ElementNode(KindOf[h.id], h, q.pos, Len(o)))
          /\ held' = KindOf[h.id]
          /\ UNCHANGED err

\* advance, at the declared end of the innermost master.
AdvanceEnd(q, o) ==
  /\ Settled
  /\ IF LeaveMasterResult(q) # "ok"
     THEN Fail(LeaveMasterResult(q)) /\ p' = q /\ open' = o
     ELSE IssueEnd(PopMaster(q), o, q.pos, "DeclaredEnd")

-----------------------------------------------------------------------------
(* Next: resolve and advance, one action per way through them.  A call that *)
(* returns NeedMoreData invalidates the node the consumer held.            *)

Idle == UNCHANGED <<doc, finalized, skipped>>

\* A latched failure, or an end of input already reported, is reported again.
NextAgain ==
  /\ \/ err # "none"
     \/ /\ ResolveResult = "ok" /\ closes = << >> /\ eofRun
        /\ PeekResult(doc, ResolvedParser) = "NeedMoreData"
        /\ Ended
  /\ held' = "none"
  /\ UNCHANGED <<doc, p, open, pending, decision, pendOpen, closes, finalized, eofRun,
                 err, events, skipped>>

\* The decision cannot be carried out yet: the skipped payload has not arrived.
NextResolveBlocked ==
  /\ err = "none" /\ ResolveResult = "NeedMoreData"
  /\ held' = "none"
  /\ UNCHANGED <<doc, p, open, pending, decision, pendOpen, closes, finalized, eofRun,
                 err, events, skipped>>

\* The decision can never be carried out.
NextResolveFails ==
  /\ err = "none" /\ ResolveResult \notin {"ok", "NeedMoreData"}
  /\ Fail(ResolveResult)
  /\ UNCHANGED <<p, open, pending, decision, pendOpen, closes, eofRun>> /\ Idle

\* A master closed by the end of the input is reported.
NextDequeue ==
  /\ err = "none" /\ ResolveResult = "ok" /\ closes # << >>
  /\ Settled
  /\ DequeueClose(ResolvedParser, ResolvedOpen, closes)
  /\ UNCHANGED eofRun /\ Idle

\* The decision is carried out and there is nothing further in the bytes fed.
NextNeedsMore ==
  /\ err = "none" /\ ResolveResult = "ok" /\ closes = << >>
  /\ PeekResult(doc, ResolvedParser) = "NeedMoreData"
  /\ ~finalized
  /\ p' = ResolvedParser /\ open' = ResolvedOpen /\ Settled
  /\ held' = "none"
  /\ UNCHANGED <<closes, eofRun, err, events>> /\ Idle

\* Finalize had left complete events unreported; they are reported by now and
\* the closing it put off happens here.
NextRunsEOF ==
  LET q == ResolvedParser
      r == FinalizeEOFResult(doc, q)
  IN /\ err = "none" /\ ResolveResult = "ok" /\ closes = << >>
     /\ PeekResult(doc, q) = "NeedMoreData"
     /\ finalized /\ ~eofRun
     /\ eofRun' = TRUE
     /\ Settled
     /\ IF r # "ok"
        THEN Fail(r) /\ p' = q /\ open' = ResolvedOpen /\ closes' = << >>
        ELSE IF ClosedMasters(q) # << >>
        THEN DequeueClose(FinalizeEOF(q), ResolvedOpen, ClosedMasters(q))
        ELSE /\ p' = FinalizeEOF(q) /\ open' = ResolvedOpen /\ closes' = << >>
             /\ events' = Append(events, Outcome("eof", "none"))
             /\ held' = "none"
             /\ UNCHANGED err
     /\ Idle

\* Mutant: the ends still queued are not looked at.
NextEOFUndrained ==
  /\ err = "none" /\ ResolveResult = "ok"
  /\ PeekResult(doc, ResolvedParser) = "NeedMoreData"
  /\ finalized /\ eofRun /\ ~Ended
  /\ p' = ResolvedParser /\ open' = ResolvedOpen /\ Settled
  /\ events' = Append(events, Outcome("eof", "none"))
  /\ held' = "none"
  /\ UNCHANGED <<closes, eofRun, err>> /\ Idle

\* io.EOF, once everything FinalizeEOF closed has been reported.
NextEOF ==
  /\ err = "none" /\ ResolveResult = "ok" /\ closes = << >>
  /\ PeekResult(doc, ResolvedParser) = "NeedMoreData"
  /\ finalized /\ eofRun /\ ~Ended
  /\ p' = ResolvedParser /\ open' = ResolvedOpen /\ Settled
  /\ events' = Append(events, Outcome("eof", "none"))
  /\ held' = "none"
  /\ UNCHANGED <<closes, eofRun, err>> /\ Idle

\* The innermost master has reached its declared end.
NextEnd ==
  /\ err = "none" /\ ResolveResult = "ok" /\ closes = << >>
  /\ PeekResult(doc, ResolvedParser) = "EndMaster"
  /\ AdvanceEnd(ResolvedParser, ResolvedOpen)
  /\ UNCHANGED <<closes, eofRun>> /\ Idle

\* A complete header is reported, or it ends the innermost unknown-size master.
NextHeader ==
  /\ err = "none" /\ ResolveResult = "ok" /\ closes = << >>
  /\ PeekResult(doc, ResolvedParser) = "ok"
  /\ AdvanceHeader(ResolvedParser, ResolvedOpen)
  /\ UNCHANGED <<closes, eofRun>> /\ Idle

\* The bytes at the current offset cannot be read.
NextMalformed ==
  /\ err = "none" /\ ResolveResult = "ok" /\ closes = << >>
  /\ PeekResult(doc, ResolvedParser) \in Malformed \cup Misuse
  /\ Fail(PeekResult(doc, ResolvedParser))
  /\ p' = ResolvedParser /\ open' = ResolvedOpen /\ Settled
  /\ UNCHANGED <<closes, eofRun>> /\ Idle

CursorNext ==
  \/ NextAgain \/ NextResolveBlocked \/ NextResolveFails \/ NextDequeue \/ NextNeedsMore
  \/ NextRunsEOF \/ NextEOF \/ NextEnd \/ NextHeader \/ NextMalformed

-----------------------------------------------------------------------------
(* Feed and Finalize.                                                      *)

\* A chunk arrives.  It moves nothing, so the node held stays valid.
FeedChunk(n) ==
  /\ err = "none" /\ ~finalized
  /\ p.fed + n <= Documents[doc].start + Documents[doc].len
  /\ p' = Feed(p, n)
  /\ UNCHANGED <<doc, open, pending, decision, pendOpen, closes, finalized, eofRun, err,
                 held, events, skipped>>

\* Feeding a finalized cursor is recorded and reported by the next Next.
FeedAfterFinalize ==
  /\ err = "none" /\ finalized
  /\ err' = "FedAfterFinalize"
  /\ UNCHANGED <<doc, p, open, pending, decision, pendOpen, closes, finalized, eofRun,
                 held, events, skipped>>

\* Finalize resolves the pending decision as Next would.  With complete events
\* still unreported it leaves the rest to Next; otherwise it runs FinalizeEOF.
Finalize ==
  LET blocked == ResolveResult = "NeedMoreData"
      q == IF blocked THEN p ELSE ResolvedParser
      peek == PeekResult(doc, q)
      r == FinalizeEOFResult(doc, q)
  IN /\ err = "none" /\ ~finalized
     /\ finalized' = TRUE
     /\ held' = "none"
     /\ IF ResolveResult \notin {"ok", "NeedMoreData"}
        THEN /\ Fail(ResolveResult)
             /\ UNCHANGED <<p, open, pending, decision, pendOpen, closes, eofRun>>
        ELSE /\ p' = IF (blocked \/ peek = "NeedMoreData") /\ r = "ok" THEN FinalizeEOF(q) ELSE q
             /\ IF blocked
                THEN UNCHANGED <<open, pending, decision, pendOpen>>
                ELSE open' = ResolvedOpen /\ Settled
             /\ IF ~blocked /\ peek \in {"ok", "EndMaster"}
                THEN UNCHANGED <<closes, eofRun, err, events>>
                ELSE IF ~blocked /\ peek # "NeedMoreData"
                THEN Fail(peek) /\ UNCHANGED <<closes, eofRun>>
                ELSE /\ eofRun' = TRUE
                     /\ IF r = "ok"
                        THEN closes' = ClosedMasters(q) /\ UNCHANGED <<err, events>>
                        ELSE Fail(r) /\ UNCHANGED closes
     /\ UNCHANGED <<doc, skipped>>

-----------------------------------------------------------------------------

Init ==
  /\ doc \in DOMAIN Documents
  /\ p = New(doc)
  /\ open = << >> /\ closes = << >>
  /\ pending = "none" /\ decision = "none" /\ pendOpen = NoMaster
  /\ finalized = FALSE /\ eofRun = FALSE
  /\ err = "none" /\ held = "none"
  /\ events = << >> /\ skipped = {}

Consume ==
  Descend \/ SkipSubtree \/ SkipLeaf \/ Payload \/ CursorNext

Next ==
  \/ Consume
  \/ \E n \in 1..Documents[doc].len : FeedChunk(n)
  \/ FeedAfterFinalize
  \/ Finalize

Spec == Init /\ [][Next]_vars

-----------------------------------------------------------------------------
(* Types.                                                                  *)

Extent == Nat \cup {UnknownSize}

Frame == [id : ElementID, start : Nat, end : Extent]

ElementCtx == [id : ElementID \cup {"none"}, kind : Kind \cup {"none"}, size : Extent,
               offset : Nat]

ParserState == [fed : Nat, pos : Nat, stack : Seq(Frame), current : ElementCtx]

OpenMaster == [id : ElementID, offset : Nat, size : Extent]

Decision == {"none", "descend", "skipSubtree", "skipPayload", "payloadDone"}

\* The failures a stream or its consumer can cause.  The others the code guards
\* against would be the cursor's own: its bookkeeping out of step with the parser.
StreamErrors ==
  Malformed \cup Incomplete \cup {"SkipUnknownSize", "Classifier", "FedAfterFinalize"}

CloseReason == {"none", "DeclaredEnd", "Boundary", "EndOfInput"}

Event == [ev : {"master", "leaf", "end", "eof", "fail"}, id : ElementID \cup {"none"},
          depth : Nat, offset : Nat, size : Extent, end : Extent,
          why : CloseReason \cup StreamErrors]

\* The variables have their types.
TypeOK ==
  /\ doc \in DOMAIN Documents
  /\ p \in ParserState
  /\ open \in Seq(OpenMaster)
  /\ pending \in {"none", "master", "leaf"}
  /\ decision \in Decision
  /\ pendOpen \in IF pending = "master" THEN OpenMaster ELSE {NoMaster}
  /\ closes \in Seq([id : ElementID, end : Nat])
  /\ finalized \in BOOLEAN /\ eofRun \in BOOLEAN
  /\ err \in {"none"} \cup StreamErrors
  /\ held \in {"none", "master", "leaf", "end"}
  /\ events \in Seq(Event)
  /\ skipped \subseteq Nat

-----------------------------------------------------------------------------
(* Safety.                                                                 *)

\* The parser never passes the bytes it was fed.
WithinInput == p.pos <= p.fed

\* Two stacks that hold the same masters, level by level.
SameMasters(o, stack) ==
  /\ Len(o) = Len(stack)
  /\ \A i \in 1..Len(o) : /\ o[i].id = stack[i].id
                          /\ o[i].size = UnknownSize <=> stack[i].end = UnknownSize

\* The list c closes exactly the masters of o, from the innermost outwards.
ClosesAll(c, o) ==
  /\ Len(c) = Len(o)
  /\ \A i \in 1..Len(o) : c[i].id = o[Len(o) + 1 - i].id

\* While the cursor is healthy its stack is the parser's: the two are pushed and
\* popped by different calls, some of them a Next apart, and FinalizeEOF empties
\* one at a stroke while the other is drained event by event.
StackMirror ==
  err = "none" => IF eofRun
                  THEN p.stack = << >> /\ ClosesAll(closes, open)
                  ELSE closes = << >> /\ SameMasters(open, p.stack)

\* The element the parser is positioned on is the one whose node is pending.
PendingMatches ==
  err = "none" =>
    /\ pending = "none"   => ~HasCurrent(p) /\ decision = "none"
    /\ pending = "master" => /\ p.current.kind = "master" /\ ~eofRun
                             /\ p.current.id = pendOpen.id
                             /\ p.current.size = pendOpen.size
                             /\ decision \in {"none", "descend", "skipSubtree"}
    /\ pending = "leaf"   => /\ ~eofRun
                             /\ decision \in {"none", "skipPayload", "payloadDone"}
                             /\ IF decision = "payloadDone" THEN ~HasCurrent(p)
                                ELSE p.current.kind = "leaf" /\ p.current.size # UnknownSize

\* A decision is only ever offered on the node that is pending.
HeldIsPending == held \in {"master", "leaf"} => pending = held

EOFReported == \E i \in 1..Len(events) : events[i].ev = "eof"

\* io.EOF is reported only when nothing is left: no byte unread, no master open,
\* no element half done.  A reader that took a cut stream for a complete one
\* would lose its tail without anyone noticing.
CleanEOF ==
  EOFReported =>
    /\ eofRun
    /\ p.pos = p.fed /\ ~HasCurrent(p)
    /\ open = << >> /\ closes = << >>
    /\ err \in {"none", "FedAfterFinalize"}

\* Once FinalizeEOF has succeeded there is nothing behind it.
EOFRunDrained ==
  eofRun /\ err = "none" => finalized /\ p.pos = p.fed /\ pending = "none"

\* What every call of the cursor relies on, of the parser, the two stacks, the
\* pending node and the end of the input: it holds between any two calls
\* (Cursor_proofs).  TypeOK is part of it.
CursorInv ==
  /\ TypeOK /\ WithinInput /\ StackMirror /\ PendingMatches /\ HeldIsPending
  /\ EOFRunDrained /\ CleanEOF

\* The failures by which the cursor would admit that its own bookkeeping broke are
\* never reported: no call the code makes on the parser is refused as a misuse, and
\* no master closed at the end of the input is one the cursor did not hold.
NoBookkeepingError ==
  err \notin Misuse \cup {"NoOpenMaster", "NeverEntered", "StackMismatch"}

\* What the doc comment of ClosedByDeclaredEnd promises of every master closed
\* for that reason: it ends where its header said.
\* The model refutes it (README, section 7).
DeclaredEndIsExact ==
  \A i \in DOMAIN events :
    events[i].ev = "end" /\ events[i].why = "DeclaredEnd" =>
      \E j \in DOMAIN events : /\ events[j].ev = "master"
                              /\ events[j].offset = events[i].offset
                              /\ events[j].end = events[i].end

\* What the doc comment of Finalize and the cursor's tests say of a cursor that
\* was told its input is over: it reports the rest, the truncation or io.EOF, and
\* a Next never asks for the bytes that cannot come.
FinalizedNeverNeedsMore ==
  finalized /\ err = "none" => ResolveResult # "NeedMoreData"

=============================================================================
