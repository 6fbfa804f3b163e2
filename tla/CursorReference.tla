-------------------------- MODULE CursorReference --------------------------
(***************************************************************************)
(* What a whole input says, by recursive descent: the reference that the   *)
(* incremental cursor is compared with.  Nothing here knows of chunks, of  *)
(* a parser stack or of a pending decision: a master is read by reading    *)
(* its children until it ends, and the ends of masters are the returns.    *)
(***************************************************************************)
EXTENDS Cursor, SequencesExt

\* A reading in progress: the nodes read, where it stands, how it goes on ("go",
\* "end" of a master, "fail", "out" of input), and, out of input, the nodes with
\* the ends of the masters open there and whether one of these was cut short.
Standing(evs, pos, stop, closed, short) ==
  [evs |-> evs, pos |-> pos, stop |-> stop, closed |-> closed, short |-> short]

Going(evs, pos) == Standing(evs, pos, "go", << >>, FALSE)

Progress(eoi) ==
  [evs : Seq(Event), pos : 0..eoi, stop : {"go", "end", "fail", "out"},
   closed : Seq(Event), short : BOOLEAN]

\* Where a list of elements is: in the master om declared to end at end, inside
\* level masters in all; at level 0 it is in none.
Place == [om : OpenMaster \cup {NoMaster}, level : Nat, end : Extent]

NoPlace == [om |-> NoMaster, level |-> 0, end |-> UnknownSize]

Stop(r, why) == Standing(Append(r.evs, Outcome("fail", why)), r.pos, "fail", << >>, FALSE)

OutOfInput(r) == Standing(r.evs, r.pos, "out", r.evs, FALSE)

\* Asked for or not, a payload's last byte comes before anything after it.
PastPayload(r, size, eoi) ==
  IF r.pos + size > eoi THEN Stop(r, "TruncatedPayload") ELSE Going(r.evs, r.pos + size)

\* The master of m ends where r stands.
Close(r, m, reason) ==
  Standing(Append(r.evs, EndNode(m.om, m.level - 1, r.pos, reason)), r.pos, "end", << >>, FALSE)

\* The input ended inside the master of m, if there is one.
LeftOpen(r, m) ==
  IF m.level = 0 THEN r
  ELSE Standing(r.evs, r.pos, "out",
                Append(r.closed, EndNode(m.om, m.level - 1, r.pos, "EndOfInput")),
                r.short \/ (m.end # UnknownSize /\ r.pos < m.end))

\* A master that has ended is an element read.
Resume(r) == IF r.stop = "end" THEN Going(r.evs, r.pos) ELSE r

\* What prevents the element at pos from being read in a parent ending at end.
Defect(h, pos, end, eoi) ==
  LET v    == VINTResult(h, eoi - pos)
      kind == KindOf[h.id]
  IN IF v = "NeedMoreData" THEN "TruncatedHeader"
     ELSE IF v # "ok" THEN v
     ELSE IF h.size = UnknownSize
     THEN IF kind = "master" THEN "none" ELSE "UnknownSizeLeaf"
     ELSE IF end # UnknownSize /\ EndOf(h, pos) > end THEN "ElementOverflow"
     ELSE IF kind = "endmaster" THEN "Classifier"
     ELSE "none"

\* One element of the list at m read, whatever it holds: list reads on.
Past(list, d, skips, eoi, r, m) ==
  LET h    == HeaderAt(d, r.pos)
      kind == KindOf[h.id]
      read == Going(Append(r.evs, ElementNode(kind, h, r.pos, m.level)), r.pos + HeaderLen(h))
      into == [om |-> [id |-> h.id, offset |-> r.pos, size |-> h.size],
               level |-> m.level + 1, end |-> EndOf(h, r.pos)]
  IN IF kind = "leaf" \/ (r.pos \in skips /\ h.size # UnknownSize)
     THEN PastPayload(read, h.size, eoi)
     ELSE IF r.pos \in skips THEN Stop(read, "SkipUnknownSize")
     ELSE Resume(list[<<read, into>>])

ReadOn(list, d, skips, eoi, r, m) ==
  LET h   == HeaderAt(d, r.pos)
      why == Defect(h, r.pos, m.end, eoi)
  IN IF r.stop = "out" THEN LeftOpen(r, m)
     ELSE IF r.stop # "go" THEN r
     ELSE IF m.level # 0 /\ m.end # UnknownSize /\ r.pos >= m.end THEN Close(r, m, "DeclaredEnd")
     ELSE IF r.pos = eoi THEN LeftOpen(OutOfInput(r), m)
     ELSE IF why # "none" THEN Stop(r, why)
     ELSE IF m.level # 0 /\ m.om.size = UnknownSize /\ <<m.om.id, h.id>> \in Boundary
     THEN Close(r, m, "Boundary")
     ELSE list[<<Past(list, d, skips, eoi, r, m), m>>]

\* What is read of the input of document d that ends at eoi from r on, by the list
\* of elements at m, skipping the masters whose offsets are in skips.
Children(d, skips, eoi) ==
  LET list[c \in Progress(eoi) \X Place] == ReadOn(list, d, skips, eoi, c[1], c[2])
  IN list

\* Reading document d from start to eoi.
ReadFrom(d, start, skips, eoi) ==
  Children(d, skips, eoi)[<<Going(<< >>, start), NoPlace>>]

\* All that a reading says, its end of input included.
Said(r) ==
  IF r.stop = "fail" THEN r.evs
  ELSE IF r.short THEN Append(r.evs, Outcome("fail", "UnfinishedMaster"))
  ELSE Append(r.closed, Outcome("eof", "none"))

WholeInput(d, skips, eoi) == Said(ReadFrom(d, Documents[d].start, skips, eoi))

InputEnd == Documents[doc].start + Documents[doc].len

-----------------------------------------------------------------------------

\* What the consumer has been told is what the recursive descent says, in its
\* order and with its extents, however the input was cut into chunks and
\* whenever the consumer took its decisions (cursor.go, "split-invariant").
\* A reading that has ended, with io.EOF or with a failure, has told everything:
\* its outcome is the last event on both sides.  Feeding after Finalize is the
\* consumer's own error and has no counterpart.
SplitInvariance ==
  IsPrefix(events, WholeInput(doc, skipped, IF finalized THEN p.fed ELSE InputEnd))

=============================================================================
