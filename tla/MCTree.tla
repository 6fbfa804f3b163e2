------------------------------- MODULE MCTree -------------------------------
(* Every document of up to three elements over a small alphabet of headers,   *)
(* sizes given in more bytes than they need among them; and documents with    *)
(* checksums, right and wrong, which the caller may change.                   *)
EXTENDS Tree

MCIDs == {"EBML", "Segment", "Cluster", "Block", "Odd", "CRC", "bad"}
MCKinds == [id \in MCIDs |-> CASE id \in {"EBML", "Segment", "Cluster"} -> "master"
                               [] id = "Odd" -> "endmaster"
                               [] OTHER -> "leaf"]
MCIDWidth == [id \in MCIDs |-> IF id = "EBML" THEN 2 ELSE 1]

\* One, two and three bytes of two value bits hold sizes up to 2, 14 and 62.
Known(id, width, n) == EncodeID(id) \o SizeBytes(n, width)
Unknown(id, width) == EncodeID(id) \o UnknownSizeVINTWidth(width)

-----------------------------------------------------------------------------

\* A leaf brings its payload, which is no other leaf's.
Alone(h) == [bytes |-> h, data |-> 0]
Alphabet ==
  << Alone(Unknown("Segment", 1)), Alone(Unknown("Segment", 2)), Alone(Known("Segment", 2, 5)),
     Alone(Known("Segment", 1, 2)), Alone(Unknown("Cluster", 1)), Alone(Known("Cluster", 2, 3)),
     Alone(Known("Cluster", 1, 0)), Alone(Known("EBML", 1, 0)), Alone(Known("Odd", 1, 0)),
     [bytes |-> Known("Block", 1, 1), data |-> 1], [bytes |-> Known("Block", 2, 1), data |-> 1] >>

Data(n, of) == [i \in 1..n |-> <<"data", i, of>>]

Whole(hs) ==
  FlattenSeq([i \in DOMAIN hs |-> Alphabet[hs[i]].bytes \o Data(Alphabet[hs[i]].data, i)])

\* Each whole and without its last byte.
Family == {"family"} \X (UNION {[1..n -> DOMAIN Alphabet] : n \in 1..3}) \X {0, 1}

FamilyText(d) == SubSeq(Whole(d[2]), 1, Len(Whole(d[2])) - d[3])

-----------------------------------------------------------------------------

Element(id, width, body) == Known(id, width, Len(body)) \o body

Sum(covered) == Element("CRC", 2, Checksum(covered))

Small == Element("Block", 1, Data(1, 11))
Wide  == Element("Block", 3, Data(2, 12))
Large == Element("Block", 2, Data(5, 13))

Inner(stored) == Element("Cluster", 2, Sum(stored) \o Small)

Sums ==
  << \* Right sums, in front and behind, in a size of minimal width and a wider one.
    Element("Segment", 2, Sum(Small) \o Small) \o Small,
    Element("Segment", 3, Sum(Wide \o Small) \o Wide \o Small),
    Element("Segment", 3, Large \o Sum(Large)),
    Element("Segment", 2, Sum(<< >>)),
    \* Wrong ones, in the wrong place, twice, or of another length.
    Element("Segment", 2, Sum(Wide) \o Small),
    Element("Segment", 3, Small \o Sum(Wide)),
    Element("Segment", 3, Wide \o Sum(Wide \o Small) \o Small),
    Element("Segment", 3, Sum(Small) \o Sum(Small) \o Small),
    Element("Segment", 3, Element("CRC", 2, Front(Checksum(Small))) \o Small),
    \* A sum over a sum, both right and the inner one wrong.
    Element("Segment", 3, Sum(Inner(Small)) \o Inner(Small)),
    Element("Segment", 3, Sum(Inner(Wide)) \o Inner(Wide)),
    \* A sum in a master that has no size.
    Unknown("Segment", 1) \o Sum(Small) \o Small \o Element("EBML", 1, << >>) >>

-----------------------------------------------------------------------------

Summed == {"sums"} \X DOMAIN Sums

MCText == [d \in Family \cup Summed |-> IF d \in Summed THEN Sums[d[2]] ELSE FamilyText(d)]

MCDocuments == [d \in Family \cup Summed |-> Decoded(MCText[d])]

MCCaps == {-1, 0, 4}

MCEdits == [d \in Family \cup Summed |-> IF d \in Summed THEN 2 ELSE 0]

=============================================================================
