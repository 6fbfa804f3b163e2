------------------------------ MODULE MCCursor ------------------------------
(* Documents on which TLC checks Cursor: some that are there for a case, and *)
(* every one of up to three elements over a small alphabet of headers.       *)
EXTENDS CursorReference, TLC

IDs == {"EBML", "Segment", "Cluster", "Tag", "Block", "Odd"}

Kinds == [id \in IDs |->
           CASE id \in {"EBML", "Segment", "Cluster"} -> "master"
             [] id \in {"Tag", "Block"}               -> "leaf"
             [] OTHER                                 -> "endmaster"]

\* A new document ends whatever is open; a Cluster ends at what cannot be in it.
Boundaries == {<<open_, next>> \in IDs \X IDs :
                 next \in {"EBML", "Segment"} \/ (open_ = "Cluster" /\ next \in {"Cluster", "Tag"})}

H(id, size)          == [id |-> id, idLen |-> 1, sizeLen |-> 1, size |-> size]
Wide(id, il, sl, sz) == [id |-> id, idLen |-> il, sizeLen |-> sl, size |-> sz]

Doc(start, len, at) == [start |-> start, len |-> len, at |-> at]

Docs ==
  [ \* An unknown-size Segment with known- and unknown-size Clusters, then a
    \* second document.
    live     |-> Doc(0, 13, 0 :> H("Segment", -1) @@ 2 :> H("Cluster", 3) @@ 4 :> H("Block", 1)
                        @@ 7 :> H("Cluster", -1) @@ 9 :> H("Block", 0) @@ 11 :> H("EBML", 0)),
    \* Everything declared, ends coinciding.
    declared |-> Doc(0, 11, 0 :> H("Segment", 7) @@ 2 :> H("Cluster", 3) @@ 4 :> H("Block", 1)
                        @@ 7 :> H("Cluster", 0) @@ 9 :> H("Tag", 0)),
    \* Two unknown-size masters closed by one header.
    nested   |-> Doc(0, 10, 0 :> H("Segment", -1) @@ 2 :> H("Cluster", -1) @@ 4 :> H("Tag", 1)
                        @@ 7 :> H("Cluster", -1) @@ 9 :> H("Segment", -1)),
    \* Headers wider than a byte, from an offset inside a longer stream.
    wide     |-> Doc(5, 9, 5 :> Wide("Segment", 2, 2, 5) @@ 9 :> Wide("Block", 1, 2, 2)),
    \* An unknown-size master inside a declared one, which it runs past.
    runsPast |-> Doc(0, 10, 0 :> H("Segment", 4) @@ 2 :> H("Cluster", -1) @@ 4 :> H("Block", 2)
                        @@ 8 :> H("Cluster", 0)),
    \* What cannot be read.
    overflow |-> Doc(0, 7, 0 :> H("Segment", 4) @@ 2 :> H("Block", 3)),
    noSize   |-> Doc(0, 6, 0 :> H("Segment", -1) @@ 2 :> H("Block", -1)),
    badID    |-> Doc(0, 6, 0 :> H("Segment", 3) @@ 2 :> H("Block", 0)),
    badSize  |-> Doc(0, 5, 0 :> H("Block", 1) @@ 3 :> Wide("Block", 1, 0, 0)),
    odd      |-> Doc(0, 5, 0 :> H("Cluster", -1) @@ 2 :> H("Odd", 0)) ]

-----------------------------------------------------------------------------

\* Masters whose size is unknown, too small for a child, and large enough for one;
\* the sizes also make ends coincide, be overrun and be cut short.
Alphabet == {H("Segment", -1), H("Segment", 3), H("Cluster", -1), H("Cluster", 0),
             H("Cluster", 2), H("Block", 0), H("Block", 1)}

\* The bytes an element takes before the next header: a leaf brings its payload.
Span(h) == HeaderLen(h) + (IF Kinds[h.id] = "leaf" THEN h.size ELSE 0)

OffsetOf(hs, i) == FoldLeft(LAMBDA n, h : n + Span(h), 0, SubSeq(hs, 1, i - 1))

Layout(hs) ==
  Doc(0, OffsetOf(hs, Len(hs) + 1),
      [o \in {OffsetOf(hs, i) : i \in DOMAIN hs} |->
         hs[CHOOSE i \in DOMAIN hs : OffsetOf(hs, i) = o]])

Family == {Layout(hs) : hs \in UNION {[1..n -> Alphabet] : n \in 1..3}}

\* A document is its own name.
AllDocs == [d \in Family \cup Range(Docs) |-> d]

=============================================================================
