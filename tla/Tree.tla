-------------------------------- MODULE Tree --------------------------------
(***************************************************************************)
(* tree/parse.go, tree/marshal.go and tree/checksum.go: a buffer is parsed   *)
(* into retained elements over the parser of module Parser, the caller may   *)
(* change the elements, and they are written back with the headers of module *)
(* Encode.                                                                 *)
(*                                                                         *)
(* An element is an entry of nodes; it names its parent, and the children of *)
(* an element are, in order, the entries that name it (AppendChild only ever *)
(* appends).                                                               *)
(***************************************************************************)
EXTENDS Parser, Encode, SequencesExt

CONSTANTS
  Text,          \* the bytes of each document, as in module Encode
  TopLevelID,    \* the IDs of an EBML header and of a Segment
  CRC,           \* the ID of a CRC-32 element
  IllFormedID,   \* IDs that are not ValidID; no parser returns one
  Caps,          \* WithMaxPayload: what may be retained of a leaf, or -1
  NewIDs,        \* bound: the IDs of the leaves a caller adds,
  NewSizes,      \* bound: and the sizes of the payloads it makes
  MaxEdits       \* bound: changes to the tree of each document

VARIABLES
  doc, cap,  \* the arguments of Parse
  p,         \* its parser
  nodes,     \* the elements parsed, then the caller's
  stack,     \* those whose end was not reached
  phase,     \* "parsing", then what Parse returned: "ok" or an error
  edits,     \* changes made by the caller
  written,   \* what Marshal returned: "no" before it is called
  out        \* what it wrote

vars == <<doc, cap, p, nodes, stack, phase, edits, written, out>>

\* parseElementID and parseSize, wherever in a text an ID begins.
Decoded(text) ==
  LET begins == {o \in 0..(Len(text) - 1) : text[o + 1][1] = "id" /\ text[o + 1][2] = 1}
      HeaderIn(o) ==
        LET id == text[o + 1][3]
            s == o + IDWidth[id] + 1   \* where its size begins
            is == IF s \in DOMAIN text THEN text[s][1] ELSE "cut off"
        IN [id |-> id, idLen |-> IDWidth[id],
            sizeLen |-> IF is \in {"size", "unknown"} THEN text[s][3] ELSE 0,
            size |-> IF is = "size" THEN text[s][4] ELSE UnknownSize]
  IN [start |-> 0, len |-> Len(text), at |-> [o \in begins |-> HeaderIn(o)]]

\* Where the next header may begin after the header h at o: not in its bytes, nor in
\* those of a leaf's payload, which no text names as the bytes of an ID.
ReachOf(h, o) ==
  o + HeaderLen(h) + IF KindOf[h.id] # "master" /\ h.size # UnknownSize THEN h.size ELSE 0

\* The bytes of a header: those of its ID, then those of a size that its width can say.
HeaderBytes(h) ==
  EncodeID(h.id) \o IF h.size = UnknownSize THEN UnknownSizeVINTWidth(h.sizeLen)
                    ELSE SizeBytes(h.size, h.sizeLen)

SaysItsSize(h) ==
  /\ h.sizeLen \in 1..MaxSizeWidth
  /\ h.size # UnknownSize =>
       SizeWidthResult(h.size, h.sizeLen) = "ok" /\ ~(h.size > MaxKnownSize)

ASSUME TreeAssumption ==
  /\ DOMAIN Text = DOMAIN Documents
  /\ \A d \in DOMAIN Text :
       /\ Text[d] \in Seq(Range(Text[d]))
       /\ Documents[d] = Decoded(Text[d])
  /\ TopLevelID \subseteq ElementID
  /\ \A id \in ElementID \ IllFormedID : IDWidth[id] \in 1..4
  /\ \A d \in DOMAIN Documents : \A o \in DOMAIN Documents[d].at :
       /\ Documents[d].at[o].id \notin IllFormedID
       /\ Documents[d].at[o].sizeLen # 0 /\ o + HeaderLen(Documents[d].at[o]) <= Len(Text[d]) =>
            /\ SaysItsSize(Documents[d].at[o])
            /\ SubSeq(Text[d], o + 1, o + HeaderLen(Documents[d].at[o])) =
                 HeaderBytes(Documents[d].at[o])
       /\ \A q \in DOMAIN Documents[d].at : q > o => q >= ReachOf(Documents[d].at[o], o)
  /\ Caps \subseteq Int /\ NewSizes \subseteq Nat /\ MaxEdits \in [DOMAIN Documents -> Nat]
  /\ \A id \in NewIDs : id \in ElementID /\ KindOf[id] # "master"
  /\ CRC \in ElementID => KindOf[CRC] = "leaf"

-----------------------------------------------------------------------------
(* Parse.  One iteration of its loop is one step.                          *)

\* newElement, attached to the innermost open master; a leaf has its payload.
Node(h, payload, truncated) ==
  [id |-> h.id, offset |-> p.pos, headerLen |-> HeaderLen(h), size |-> h.size,
   payload |-> payload, truncated |-> truncated,
   parent |-> IF stack = << >> THEN 0 ELSE Last(stack)]

PayloadAt(h) == SubSeq(Text[doc], p.pos + HeaderLen(h) + 1, p.pos + HeaderLen(h) + h.size)

Peeked == PeekResult(doc, p)

h0 == HeaderAt(doc, p.pos)

AtEnd == Peeked = "EndMaster" \/ (Peeked = "ok" /\ KindOf[h0.id] = "endmaster")

\* Mutant: what follows an unknown-size master is always in it.
EndsUnknownNever == FALSE

EndsUnknown ==
  /\ stack # << >>
  /\ nodes[Last(stack)].size = UnknownSize
  /\ h0.id \in TopLevelID

AtElement == Peeked = "ok" /\ ~AtEnd /\ ~EndsUnknown

Parsing == phase = "parsing" /\ UNCHANGED <<doc, cap, edits, written, out>>

Fails(why) == phase' = why /\ UNCHANGED <<p, nodes, stack>>

PeekFails ==
  /\ Parsing
  /\ Peeked \notin {"ok", "EndMaster", "NeedMoreData"}
  /\ Fails(Peeked)

MasterEnds ==
  /\ Parsing
  /\ AtEnd /\ stack # << >> /\ LeaveMasterResult(p) = "ok"
  /\ p' = PopMaster(p) /\ stack' = Front(stack)
  /\ UNCHANGED <<nodes, phase>>

EndIsNone ==
  /\ Parsing
  /\ AtEnd /\ (stack = << >> \/ LeaveMasterResult(p) # "ok")
  /\ Fails(IF stack = << >> THEN "NoOpenMaster" ELSE LeaveMasterResult(p))

\* One master at a time: the next step looks at the one around it.
UnknownEnds ==
  /\ Parsing
  /\ Peeked = "ok" /\ ~AtEnd /\ EndsUnknown
  /\ p' = PopMaster(p) /\ stack' = Front(stack)
  /\ UNCHANGED <<nodes, phase>>

Enter ==
  /\ Parsing
  /\ AtElement /\ KindOf[h0.id] = "master"
  /\ p' = EnterMaster(ConsumeHeader(doc, p))
  /\ nodes' = Append(nodes, Node(h0, << >>, FALSE))
  /\ stack' = Append(stack, Len(nodes) + 1)
  /\ UNCHANGED phase

TooLarge(h) == cap >= 0 /\ h.size > cap

Leaf ==
  /\ Parsing
  /\ AtElement /\ KindOf[h0.id] = "leaf"
  /\ \E c \in {ConsumeHeader(doc, p)} :
        /\ PayloadResult(c) = "ok"
        /\ p' = StepOver(c)
        /\ nodes' = Append(nodes, Node(h0, IF TooLarge(h0) THEN << >> ELSE PayloadAt(h0),
                                       TooLarge(h0)))
  /\ UNCHANGED <<stack, phase>>

\* The parser when it asks for more than the buffer has: at an element, or with the
\* header of a leaf consumed.
Starved == IF Peeked = "ok" THEN ConsumeHeader(doc, p) ELSE p

\* Mutant: a leaf that is cut off is attached before its payload is read.
BufferEndsAttached ==
  /\ Parsing
  /\ Peeked = "NeedMoreData" \/ (AtElement /\ KindOf[h0.id] = "leaf")
  /\ \E c \in {Starved} :
       /\ HasCurrent(c) => PayloadResult(c) = "NeedMoreData"
       /\ nodes' = IF HasCurrent(c) THEN Append(nodes, Node(h0, << >>, FALSE)) ELSE nodes
       /\ phase' = FinalizeEOFResult(doc, c)
       /\ p' = IF phase' = "ok" THEN FinalizeEOF(c) ELSE c
  /\ UNCHANGED stack

\* The buffer ends at an element, or in one that is then left out.
BufferEnds ==
  /\ Parsing
  /\ Peeked = "NeedMoreData" \/ (AtElement /\ KindOf[h0.id] = "leaf")
  /\ \E c \in {Starved} :
       /\ HasCurrent(c) => PayloadResult(c) = "NeedMoreData"
       /\ phase' = FinalizeEOFResult(doc, c)
       /\ p' = IF phase' = "ok" THEN FinalizeEOF(c) ELSE c
  /\ UNCHANGED <<nodes, stack>>

-----------------------------------------------------------------------------
(* Marshal.                                                                *)

ChildrenAmong(ns, k) == {j \in DOMAIN ns : ns[j].parent = k}

Children(k) == ChildrenAmong(nodes, k)

\* Mutants: the size is the one that was declared; the width is always minimal.
SizeFieldDeclared(e, n) ==
  IF e.size = UnknownSize THEN UnknownSizeVINTWidth(e.headerLen - IDWidth[e.id])
  ELSE IF e.headerLen > 0 THEN SizeBytes(e.size, e.headerLen - IDWidth[e.id])
  ELSE EncodeSize(n)

SizeFieldMinimal(e, n) == IF e.size = UnknownSize THEN UnknownSizeVINT ELSE EncodeSize(n)

\* encodeHeader: at the width it was read with, if n still fits.
SizeField(e, n) ==
  LET width == e.headerLen - IDWidth[e.id]
      inRange == width \in 1..MaxSizeWidth
  IN IF e.size = UnknownSize
     THEN UnknownSizeVINTWidth(IF inRange THEN width ELSE MaxSizeWidth)
     ELSE IF inRange /\ SizeWidthResult(n, width) = "ok" THEN SizeBytes(n, width)
     ELSE EncodeSize(n)

HeaderError(e, n) ==
  IF e.id \in IllFormedID THEN "InvalidID"
  ELSE IF e.size # UnknownSize /\ n > MaxKnownSize THEN "SizeOverflow"
  ELSE "ok"

Nothing == [result |-> "ok", bytes |-> << >>]

\* One encoding behind those before it; the first that fails is the last.
Then(so, next) ==
  IF so.result # "ok" THEN so ELSE [result |-> next.result, bytes |-> so.bytes \o next.bytes]

\* The encodings of the elements ks, of the first n there are.
Joined(encs, ks, n) ==
  LET upTo[m \in 0..n] ==
        IF m = 0 THEN Nothing
        ELSE IF m \in ks THEN Then(upTo[m - 1], encs[m]) ELSE upTo[m - 1]
  IN upTo[n]

Encoding(e, body) ==
  LET n == Len(body.bytes)
      r == IF e.truncated THEN "TruncatedPayload"
           ELSE IF body.result # "ok" THEN body.result
           ELSE HeaderError(e, n)
  IN [result |-> r,
      bytes |-> IF r = "ok" THEN EncodeID(e.id) \o SizeField(e, n) \o body.bytes ELSE << >>]

\* encodePayload: of an element with children, what they are encoded as.
Body(ns, encs, k) ==
  IF ChildrenAmong(ns, k) = {} THEN [result |-> "ok", bytes |-> ns[k].payload]
  ELSE Joined(encs, ChildrenAmong(ns, k), Len(ns))

\* encodeElement for every one of ns.
EncodingsOf(ns) ==
  LET enc[k \in DOMAIN ns] == Encoding(ns[k], Body(ns, enc, k)) IN enc

Encodings == EncodingsOf(nodes)

\* What Marshal gives to its sink, root by root, an error keeping back the first root
\* that cannot be encoded and those after it.
WriteOf(ns) == Joined(EncodingsOf(ns), ChildrenAmong(ns, 0), Len(ns))

Parsed == phase # "parsing" /\ written = "no"

Marshal ==
  /\ Parsed
  /\ written' = WriteOf(nodes).result /\ out' = WriteOf(nodes).bytes
  /\ UNCHANGED <<doc, cap, p, nodes, stack, phase, edits>>

\* The sink fails at a root, of which it may have taken a part.
SinkFails ==
  /\ Parsed
  /\ \E bytes \in {WriteOf(nodes).bytes} :
        bytes # << >> /\ \E n \in 0..Len(bytes) : out' = SubSeq(bytes, 1, n)
  /\ written' = "SinkFailed"
  /\ UNCHANGED <<doc, cap, p, nodes, stack, phase, edits>>

-----------------------------------------------------------------------------
(* VerifyChecksum.                                                         *)

\* Mutant: a checksum in the wrong place is not looked at further.
ChecksumVerdictEager(stored, kids, covered) ==
  IF \E j \in kids : j < stored THEN "Position"
  ELSE IF nodes[stored].truncated THEN "Unavailable"
  ELSE IF Len(nodes[stored].payload) # 4 THEN "Length"
  ELSE IF covered.result = "TruncatedPayload" THEN "Unavailable"
  ELSE IF covered.result # "ok" THEN covered.result
  ELSE IF nodes[stored].payload # Checksum(covered.bytes) THEN "Mismatch"
  ELSE "ok"

\* Damage outranks disorder.
ChecksumVerdict(stored, kids, covered) ==
  IF nodes[stored].truncated THEN "Unavailable"
  ELSE IF Len(nodes[stored].payload) # 4 THEN "Length"
  ELSE IF covered.result = "TruncatedPayload" THEN "Unavailable"
  ELSE IF covered.result # "ok" THEN covered.result
  ELSE IF nodes[stored].payload # Checksum(covered.bytes) THEN "Mismatch"
  ELSE IF \E j \in kids : j < stored THEN "Position"
  ELSE "ok"

\* The checksum that an element stores is over its other children.
VerifyChecksum(k, encs) ==
  LET sums == {j \in Children(k) : nodes[j].id = CRC}
      stored == CHOOSE j \in sums : TRUE
  IN IF sums = {} THEN "ok"
     ELSE IF Cardinality(sums) > 1 THEN "Multiple"
     ELSE ChecksumVerdict(stored, Children(k), Joined(encs, Children(k) \ sums, Len(nodes)))

-----------------------------------------------------------------------------
(* The caller's changes.                                                   *)

NewPayload(n) == [i \in 1..n |-> <<"data", i, "new">>]

\* A hand-built leaf: it has no header to keep the width of.
AppendChild(k, id, n) ==
  /\ Parsed /\ edits < MaxEdits[doc]
  /\ nodes' = Append(nodes, [id |-> id, offset |-> 0, headerLen |-> 0, size |-> 0,
                             payload |-> NewPayload(n), truncated |-> FALSE, parent |-> k])
  /\ edits' = edits + 1
  /\ UNCHANGED <<doc, cap, p, stack, phase, written, out>>

ReplacePayload(k, n) ==
  /\ Parsed /\ edits < MaxEdits[doc]
  /\ nodes' = [nodes EXCEPT ![k].payload = NewPayload(n), ![k].truncated = FALSE]
  /\ edits' = edits + 1
  /\ UNCHANGED <<doc, cap, p, stack, phase, written, out>>

-----------------------------------------------------------------------------

Init ==
  /\ doc \in DOMAIN Documents /\ cap \in Caps
  /\ p = Feed(New(doc), Documents[doc].len)
  /\ nodes = << >> /\ stack = << >> /\ phase = "parsing"
  /\ edits = 0 /\ written = "no" /\ out = << >>

IsMaster(k) == KindOf[nodes[k].id] = "master"

Next ==
  \/ PeekFails \/ MasterEnds \/ EndIsNone \/ UnknownEnds
  \/ Enter \/ Leaf \/ BufferEnds
  \/ Marshal \/ SinkFails
  \/ \E k \in DOMAIN nodes, n \in NewSizes :
       \/ IsMaster(k) /\ \E id \in NewIDs : AppendChild(k, id, n)
       \/ ~IsMaster(k) /\ ReplacePayload(k, n)

Spec == Init /\ [][Next]_vars

-----------------------------------------------------------------------------
(* Properties.                                                             *)

EndOf(k) == nodes[k].offset + nodes[k].headerLen + nodes[k].size

\* The state's types, with the two stacks the loop keeps, of the parser and its
\* own, about the same masters (parse.go:165).
TreeTypeOK ==
  /\ \A k \in DOMAIN nodes :
       /\ nodes[k].parent \in 0..(k - 1)
       /\ nodes[k].parent # 0 => IsMaster(nodes[k].parent)
       /\ IsMaster(k) => nodes[k].payload = << >>
  /\ phase = "parsing" =>
       /\ Len(stack) = Len(p.stack)
       /\ \A i \in DOMAIN stack :
            /\ p.stack[i].id = nodes[stack[i]].id
            /\ p.stack[i].start = nodes[stack[i]].offset
            /\ p.stack[i].end = IF nodes[stack[i]].size = UnknownSize THEN UnknownSize
                                ELSE EndOf(stack[i])

\* How far the elements were read, the one whose payload is cut off not included.
ReadTo == IF HasCurrent(p) THEN p.current.offset ELSE p.pos

\* Of what was read nothing is lost and nothing is read twice, whether Parse
\* succeeds or keeps the good prefix: the elements, in stream order, are those
\* that begin before the position reached, each leaf with its bytes unless they
\* are more than the cap (parse.go:103).
PrefixIsKept ==
  edits = 0 =>
    /\ {nodes[k].offset : k \in DOMAIN nodes} = {o \in DOMAIN Documents[doc].at : o < ReadTo}
    /\ \A k \in DOMAIN nodes :
         /\ k > 1 => nodes[k - 1].offset < nodes[k].offset
         /\ ~IsMaster(k) =>
              nodes[k].payload =
                IF TooLarge(nodes[k]) THEN << >>
                ELSE SubSeq(Text[doc], EndOf(k) - nodes[k].size + 1, EndOf(k))

\* The masters around each of the elements ns.
AncestorsIn(ns) ==
  LET anc[k \in DOMAIN ns] ==
        IF ns[k].parent = 0 THEN {} ELSE {ns[k].parent} \cup anc[ns[k].parent]
  IN anc

Ancestors == AncestorsIn(nodes)

\* An unknown-size master in a declared one goes past its end, with its header or
\* with what is in it: the parser compares known sizes with the master next to
\* them, and an unknown-size master has no end to reach.
RunsPast ==
  \E k \in DOMAIN nodes : \E a \in Ancestors[k] :
    /\ nodes[a].size # UnknownSize
    /\ nodes[k].offset + nodes[k].headerLen > EndOf(a)
         \/ (nodes[k].size # UnknownSize /\ EndOf(k) > EndOf(a))

\* The tree is the one the document declares, unless it runs past: an element is
\* inside the declared masters whose extent it is in and no others, and an EBML
\* header or a Segment is never a child of a master of unknown size, so that
\* concatenated live documents come out side by side (parse.go:97).
NestsAsDeclared ==
  edits = 0 /\ ~RunsPast =>
    \A k \in DOMAIN nodes :
      /\ \A a \in {m \in DOMAIN nodes : IsMaster(m) /\ nodes[m].size # UnknownSize} :
           a \in Ancestors[k] <=> (a < k /\ nodes[k].offset < EndOf(a))
      /\ nodes[k].id \in TopLevelID /\ nodes[k].parent # 0 =>
           nodes[nodes[k].parent].size # UnknownSize

\* What Parse returned without an error, nothing elided, is written back byte for
\* byte, headers at the width they had (marshal.go:38): a size, a width, an order
\* or a master's end remembered wrong shows as a byte.  A sink that fails has taken
\* a prefix of the document.
ByteExact ==
  phase = "ok" /\ cap < 0 /\ edits = 0 /\ written # "no" /\ ~RunsPast =>
    IF written = "SinkFailed" THEN IsPrefix(out, Text[doc])
    ELSE written = "ok" /\ out = Text[doc]

\* As marshal.go:40 states it: there is one precondition, nothing was truncated.
\* The model refutes it (README, section 7).
ByteExactAlways ==
  phase = "ok" /\ cap < 0 /\ edits = 0 /\ written \notin {"no", "SinkFailed"} =>
    written = "ok" /\ out = Text[doc]

\* A master's data as stored, but for its checksum, which is the element j.
StoredAround(k, j) ==
  SubSeq(Text[doc], nodes[k].offset + nodes[k].headerLen + 1, nodes[j].offset)
    \o SubSeq(Text[doc], EndOf(j) + 1, EndOf(k))

\* The verdict on a parsed element is about the bytes of the document: its
\* checksum is right if it is the one of the data as stored, whatever happened to
\* them in the tree, and wrong bytes are reported rather than a wrong place
\* (checksum.go:101).  What a cap elided is not passed and not blamed.
VerdictIsTheDocuments ==
  phase = "ok" /\ edits = 0 /\ written \notin {"no", "SinkFailed"} /\ ~RunsPast =>
    \A k \in DOMAIN nodes :
      LET sums == {j \in Children(k) : nodes[j].id = CRC}
          j == CHOOSE i \in sums : TRUE
          verdict == VerifyChecksum(k, Encodings)
          rightSum == SubSeq(Text[doc], EndOf(j) - 3, EndOf(j)) = Checksum(StoredAround(k, j))
      IN /\ sums = {} => verdict = "ok"
         /\ Cardinality(sums) > 1 => verdict = "Multiple"
         /\ Cardinality(sums) = 1 /\ nodes[k].size # UnknownSize /\ nodes[j].size = 4 =>
              IF rightSum THEN verdict \in {"ok", "Unavailable", "Position"}
              ELSE verdict \in {"Mismatch", "Unavailable"}
         /\ verdict = "Unavailable" => cap >= 0

-----------------------------------------------------------------------------
(* A changed tree.                                                         *)

\* Where the encoding of each node begins in what Marshal writes.
Starts(encs) ==
  LET Ahead(parent, n) == Len(Joined(encs, Children(parent), n).bytes)
      start[k \in DOMAIN nodes] ==
        LET parent == nodes[k].parent
        IN Ahead(parent, k - 1)
             + IF parent = 0 THEN 0
               ELSE start[parent] + Len(encs[parent].bytes) - Ahead(parent, Len(nodes))
  IN start

\* A changed tree is written as a document that reads back as that tree: by
\* extents alone, every header in it is a node's, inside its parent and no other
\* element, in front of the node's payload (marshal.go:53).
ChangedTreeReadsBack ==
  written = "ok" /\ ~RunsPast /\ (\A k \in DOMAIN nodes : nodes[k].size # UnknownSize) =>
    LET read == Decoded(out).at
        start == Starts(Encodings)
        EndAt(o) == o + HeaderLen(read[o]) + read[o].size
        Around(o) == {m \in DOMAIN read : m < o /\ EndAt(m) > o}
    IN /\ DOMAIN read = {start[k] : k \in DOMAIN nodes}
       /\ \A k \in DOMAIN nodes :
            LET o == start[k]
            IN /\ read[o].id = nodes[k].id
               /\ EndAt(o) <= Len(out)
               /\ \A m \in Around(o) : EndAt(o) <= EndAt(m)
               /\ IF nodes[k].parent = 0 THEN Around(o) = {}
                  ELSE /\ start[nodes[k].parent] \in Around(o)
                       /\ \A m \in Around(o) : m <= start[nodes[k].parent]
               /\ ~IsMaster(k) =>
                    SubSeq(out, o + HeaderLen(read[o]) + 1, EndAt(o)) = nodes[k].payload

\* While Parse runs its two stacks agree, and what it has attached by then is
\* nested as the document declares it.
TreeInv == TreeTypeOK /\ NestsAsDeclared

=============================================================================
