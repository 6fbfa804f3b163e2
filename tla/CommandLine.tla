---------------------------- MODULE CommandLine ----------------------------
(***************************************************************************)
(* cmd/ebml: dump and xml walk a Stream to its end or its failure.  dump   *)
(* prints a line for each element, indented by its depth, to a writer that *)
(* may refuse it, which dump does not look at; xml emits tokens through an *)
(* encoder that may fail at any of them, keeps a stack of its own for the  *)
(* end tags, and closes what a failure left open.  A token's text and      *)
(* attributes, the wording of a line, and what a writer took of a line it  *)
(* refused, are left out.                                                  *)
(***************************************************************************)
EXTENDS Stream, SequencesExt

CONSTANT Binary   \* IDs that are binary, blocks or unknown: values shown as hex

Root == "EBMLStream"

\* The root is no element: it has a name and no ID.
ASSUME CommandAssumption == Binary \subseteq ElementID /\ Root \notin ElementID

VARIABLES
  command,  \* "dump" or "xml" (fixed)
  showsHex, \* -max-binary is above zero (fixed)
  phase,    \* "opening", "walking", "closing" or "done"
  tags,     \* xml: the open master tag names
  out,      \* tokens the encoder took, or lines printed and lines lost
  encFailed,
  handled,  \* how many of the events the loop has dealt with
  walkErr,  \* what the walk failed of, "none" if it did not
  result    \* what the command returns, "none" before

commandVars == <<command, showsHex, phase, tags, out, encFailed, handled, walkErr, result>>
cliVars == <<streamVars, commandVars>>

Start(id) == [token |-> "start", id |-> id, depth |-> 0]
End(id) == [token |-> "end", id |-> id, depth |-> 0]
Line(n) == [token |-> "line", id |-> n.id, depth |-> n.depth]
Lost(n) == [token |-> "lost", id |-> n.id, depth |-> n.depth]

CliInit ==
  /\ StreamInit
  /\ command \in {"dump", "xml"} /\ showsHex \in BOOLEAN
  /\ phase = "opening" /\ tags = << >> /\ out = << >>
  /\ encFailed = FALSE /\ handled = 0 /\ walkErr = "none" /\ result = "none"

-----------------------------------------------------------------------------

\* token, for each of a sequence: after a failure nothing more is encoded.
Emit(tokens) ==
  \E n \in 0..Len(tokens) :
    /\ encFailed => n = 0
    /\ out' = out \o SubSeq(tokens, 1, n)
    /\ encFailed' = (encFailed \/ n < Len(tokens))

\* What the loop body returns once it has emitted: the encoder's failure, if any.
BodyReturns ==
  IF encFailed' THEN walkErr' = "encoder" /\ phase' = "closing" ELSE UNCHANGED <<walkErr, phase>>

\* dump prints to a writer that may fail, and looks at the error of no Fprint: the
\* line is out or lost, and the walk goes on.
ShowLine(n) == out' \in {Append(out, Line(n)), Append(out, Lost(n))}

Told == Top(events)

Pulled(ev) == phase = "walking" /\ call = "idle" /\ handled < Len(events) /\ Told.ev = ev

Handled == handled' = Len(events) /\ UNCHANGED <<streamVars, command, showsHex, result>>

\* runXML emits the root tag first, and gives up if it cannot.
Open ==
  /\ phase = "opening"
  /\ IF command = "dump" THEN UNCHANGED <<out, encFailed>> ELSE Emit(<<Start(Root)>>)
  /\ IF encFailed' THEN phase' = "done" /\ result' = "encoder"
     ELSE phase' = "walking" /\ UNCHANGED result
  /\ UNCHANGED <<streamVars, command, showsHex, tags, handled, walkErr>>

\* The range loop asks for the next node once the body has dealt with the last.
AskNode ==
  /\ phase = "walking" /\ handled = Len(events) /\ AskNext
  /\ UNCHANGED commandVars

\* A master is descended into, the default.
ShowMaster ==
  /\ Pulled("master") /\ Handled
  /\ IF command = "dump"
     THEN ShowLine(Told) /\ UNCHANGED <<tags, encFailed, walkErr, phase>>
     ELSE tags' = Append(tags, Told.id) /\ Emit(<<Start(Told.id)>>) /\ BodyReturns

\* closeTop; dump states structure by depth.
ShowEnd ==
  /\ Pulled("end") /\ Handled
  /\ IF command = "dump" \/ tags = << >> THEN UNCHANGED <<out, tags, encFailed, walkErr, phase>>
     ELSE tags' = Pop(tags) /\ Emit(<<End(Top(tags))>>) /\ BodyReturns

Withheld(n) == ~showsHex /\ n.id \in Binary

ShownLeaf(n) ==
  /\ UNCHANGED tags
  /\ IF command = "dump"
     THEN ShowLine(n) /\ UNCHANGED <<encFailed, walkErr, phase>>
     ELSE Emit(<<Start(n.id), End(n.id)>>) /\ BodyReturns

\* A leaf none of whose bytes would be shown keeps the cursor's default, to be skipped.
ShowHeader == Pulled("leaf") /\ Withheld(Told) /\ Handled /\ ShownLeaf(Told)

AskValue ==
  /\ Pulled("leaf") /\ ~Withheld(Told) /\ AskPayload
  /\ UNCHANGED commandVars

\* Nothing is shown of a leaf before its payload is there.
ShowValue ==
  /\ PayloadAnswered
  /\ handled' = Len(events) /\ ShownLeaf(Told)
  /\ UNCHANGED <<command, showsHex, result>>

\* The iteration has ended, or failed: in a Next, or in a Payload.
WalkEnds ==
  /\ Pulled("eof") /\ Handled /\ phase' = "closing"
  /\ UNCHANGED <<tags, out, encFailed, walkErr>>

WalkFails ==
  /\ Pulled("fail") /\ Handled
  /\ walkErr' = Told.why /\ phase' = "closing"
  /\ UNCHANGED <<tags, out, encFailed>>

\* A read error is no event of the cursor.  A drained stream is never asked to read
\* (NeverStarvedAtEnd).
ReadFails ==
  /\ FillFails /\ ~drained
  /\ walkErr' = "read" /\ phase' = "closing"
  /\ UNCHANGED <<command, showsHex, tags, out, encFailed, handled, result>>

\* Mutant: only a walk that did not fail has tags to close.
ClosingOnSuccess ==
  (IF walkErr = "none" THEN [i \in DOMAIN tags |-> End(tags[Len(tags) + 1 - i])] ELSE << >>)
    \o <<End(Root)>>

\* The end tags of whatever is open, innermost first, and the root's.
ClosingTags == [i \in DOMAIN tags |-> End(tags[Len(tags) + 1 - i])] \o <<End(Root)>>

\* runXML closes, flushes and ends the line; an error of the walk comes first, then one
\* of the encoder, which Flush reports again.  dump has nothing to close.
Return ==
  /\ phase = "closing" /\ phase' = "done"
  /\ IF command = "dump" THEN UNCHANGED <<out, encFailed>> ELSE Emit(ClosingTags)
  /\ tags' = << >>
  /\ \E flushed \in {"ok"} \cup (IF command = "xml" THEN {"flush", "newline"} ELSE {}) :
       result' = IF walkErr # "none" THEN walkErr ELSE IF encFailed' THEN "encoder" ELSE flushed
  /\ UNCHANGED <<streamVars, command, showsHex, handled, walkErr>>

Reading ==
  /\ phase = "walking"
  /\ \/ PullAnswered \/ PullStarves \/ PayloadStarves
     \/ \E n \in 1..Documents[doc].len : FillReads(n)
     \/ FillReadsNothing \/ FillEnds
  /\ UNCHANGED commandVars

CliNext ==
  \/ Open \/ AskNode \/ ShowMaster \/ ShowEnd \/ ShowHeader \/ AskValue \/ ShowValue
  \/ WalkEnds \/ WalkFails \/ ReadFails \/ Return \/ Reading

CliSpec == CliInit /\ [][CliNext]_cliVars

-----------------------------------------------------------------------------

\* The variables have their types.
CliTypeOK ==
  /\ command \in {"dump", "xml"} /\ phase \in {"opening", "walking", "closing", "done"}
  /\ tags \in Seq(ElementID) /\ handled \in 0..Len(events) /\ encFailed \in BOOLEAN
  /\ out \in Seq([token : {"start", "end", "line", "lost"}, id : ElementID \cup {Root},
                  depth : Nat])
  /\ result # "none" <=> phase = "done"

\* The masters the cursor has told of and not ended.
Masters == IF pending = "master" THEN Append(open, pendOpen) ELSE open

\* The stack of tags is the cursor's, though it is moved by nothing but the order of
\* the events: closeTop does not look at the node that ends.
TagsMirrorTheMasters ==
  command = "xml" /\ phase = "walking" /\ handled = Len(events) =>
    tags = [i \in DOMAIN Masters |-> Masters[i].id]

\* What a reader of the document is inside of after its tokens; << >> after a
\* complete document, Broken in place of a document that is none.
Broken == <<"broken">>

After(in, t) ==
  IF in = Broken THEN Broken
  ELSE IF t.token = "start" THEN Append(in, t.id)
  ELSE IF in # << >> /\ Top(in) = t.id THEN Pop(in)
  ELSE Broken

Within(tokens) ==
  LET in[i \in 0..Len(tokens)] == IF i = 0 THEN << >> ELSE After(in[i - 1], tokens[i])
  IN in[Len(tokens)]

\* "Always close every open element (including the root) so stdout is well-formed XML"
\* (xml.go:155): whatever the walk failed of, in a header, a payload or a read, unless
\* the encoder failed too.
WellFormed ==
  command = "xml" /\ phase = "done" /\ ~encFailed =>
    /\ Within(out) = << >> /\ Head(out) = Start(Root)
    /\ \A n \in 1..(Len(out) - 1) : Within(SubSeq(out, 1, n)) # << >>

\* The lines of dump are indented as the elements nest: a line stands below the line of
\* the master that encloses it, or where that line would be, had the writer taken it.
IndentedAsNested ==
  command = "dump" =>
    \A n \in DOMAIN out :
      out[n].depth = 0 \/ \E m \in 1..(n - 1) :
        /\ out[m].depth = out[n].depth - 1 /\ KindOf[out[m].id] = "master"
        /\ \A k \in (m + 1)..n : out[k].depth > out[m].depth

\* The IDs of those of a sequence that are marked.
IdsAt(s, marked) ==
  LET ids[i \in 0..Len(s)] ==
        IF i = 0 THEN << >>
        ELSE IF i \in marked THEN Append(ids[i - 1], s[i].id)
        ELSE ids[i - 1]
  IN ids[Len(s)]

\* The lines that dump's writer refused.
LostLines == {i \in DOMAIN out : out[i].token = "lost"}

\* The elements a command set out to show, those of the lost lines included, and those
\* the cursor told of.
Tried == IdsAt(out, {i \in DOMAIN out : out[i].token # "end" /\ out[i].id # Root})

Elements == IdsAt(events, {i \in DOMAIN events : events[i].ev \in {"master", "leaf"}})

\* Success is reported only of a source that was read to its end, every byte of which
\* the cursor has accounted for: not after a failure of a header, a payload, a read or
\* the encoder (dump.go, xml.go, what the commands return).
SuccessIsOfTheWhole == result = "ok" => Told.ev = "eof" /\ p.pos = sourceEnd

\* A stream of which success is reported was gone through to its last element, and any
\* other is to some place in it: each element was shown, in order, but for the lines that
\* dump lost without a word (dump.go:109, :118).  xml loses none: it stops at the first
\* token that the encoder refuses, and says so.
ResultIsTrue ==
  /\ IsPrefix(Tried, Elements)
  /\ result = "ok" => Tried = Elements
  /\ command = "xml" => LostLines = {}

\* What a command prints is what the stream holds, in its nesting, but for the lines
\* dump loses; and what it returns is how the stream ended.
CliInv ==
  /\ CliTypeOK /\ TagsMirrorTheMasters /\ WellFormed /\ IndentedAsNested
  /\ SuccessIsOfTheWhole /\ ResultIsTrue

\* A dump that succeeds has printed every line.  No doc says so, and the model refutes
\* it (README, section 6).
SuccessIsPrinted == result = "ok" => LostLines = {}

\* "... even when the walk or the encoder failed mid-stream" (xml.go:155).
\* The model refutes it (README, section 7).
WellFormedAlways == command = "xml" /\ phase = "done" => Within(out) = << >>

=============================================================================
