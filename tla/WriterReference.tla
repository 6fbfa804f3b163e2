-------------------------- MODULE WriterReference --------------------------
(***************************************************************************)
(* The bytes of an EBML document, defined on the document as a whole: the    *)
(* elements the caller said, nested as the caller nested them.  Nothing here *)
(* has a position, a buffer or a placeholder to patch.                      *)
(***************************************************************************)
EXTENDS Writer, SequencesExt

\* The size in a header in front of n bytes.
SizeField(size, n) ==
  IF size.kind = "unknown" THEN UnknownSizeVINT
  ELSE IF size.kind = "reserved" THEN SizeBytes(n, size.width)
  ELSE EncodeSize(n)

\* A master's checksum is over its children and stands before them.
WithChecksum(crcID, children) ==
  IF crcID = "none" THEN children ELSE ChecksumElement(crcID, children) \o children

WithHeader(e, body) == EncodeID(e.id) \o SizeField(e.size, Len(body)) \o body

\* An element with children from the given set.
ElementOf(children) ==
  [id : ElementID, size : Sizes, crcID : ElementID \cup {"none"},
   payload : PayloadSizes \cup {0}, children : Seq(children)]

\* The bytes of each element that holds at most n - 1 levels of others.
Encoded[n \in 0..(MaxDepth + 1)] ==
  IF n = 0 THEN << >>
  ELSE [e \in ElementOf(DOMAIN Encoded[n - 1]) |->
         WithHeader(e, Payload(e.payload)
                         \o WithChecksum(e.crcID,
                              FlattenSeq([i \in DOMAIN e.children |->
                                            Encoded[n - 1][e.children[i]]])))]

\* The bytes of elements one after the other.
EncodeAll(n, elements) == FlattenSeq([i \in DOMAIN elements |-> Encoded[n][elements[i]]])

\* What is complete in the k-th of the levels said: an element there has what is left
\* of MaxDepth to nest in.
Completed(levels, k) == EncodeAll(MaxDepth + 2 - k, levels[k].children)

\* What goes to one place of the masters open down to the k-th: their headers, each
\* behind what is complete in the one around it.  A master that is kept until it ends
\* goes to a place of its own.
Emitted(levels) ==
  LET emitted[k \in DOMAIN levels] ==
        IF k = 1 \/ levels[k].size.kind = "buffered" THEN Completed(levels, k)
        ELSE emitted[k - 1]
               \o (EncodeID(levels[k].id) \o SizeField(levels[k].size, 0) \o Completed(levels, k))
  IN emitted

\* What the sink held before the document.
Before(t) == IF t = 0 THEN Payload(start) ELSE << >>

\* What the sink and the buffers hold is the document that was said, no more and
\* no less: after any calls, with masters open under any strategies, one inside
\* another, a refused call leaves no byte behind and an ended master's size counts
\* exactly what is in it.  A sink that fails holds a beginning of the document.
SinkIsDocument ==
  /\ failure \in {"none", "Flush"} =>
       \A k \in DOMAIN said : \A t \in 0..(k - 1) :
         /\ IsTargetAt(t, k - 1)
         /\ k = Len(said) \/ said[k + 1].size.kind = "buffered"
         => Bytes(t) = Before(t) \o Emitted(said)[k]
  /\ failure = "Write" => IsPrefix(sink, Before(0) \o Emitted(said)[Len(said)])

\* The writer's books are in order - frames, target and offset agree - and
\* so is what it wrote, whichever calls were refused or failed.
SinkInv == WTypeOK /\ SinkIsDocument

=============================================================================
